---- MODULE Spec2Model ----
(***************************************************************************)
(* Incremental payslip sync: period window (date_utils.py), record store   *)
(* (csv_handler.py), per-year session automaton (network_handler.py) and   *)
(* the orchestrator (main_controller.py).                                  *)
(*                                                                         *)
(* Text is modelled as a sequence of characters.  The Japanese characters  *)
(* of the source are written with ASCII names:                             *)
(*   "Rei" "Wa" = the two characters of the era marker, "Nen" = year mark, *)
(*   "Gatsu" = month mark, "Do" "Kyu" "Yo" = the label suffix of a row.    *)
(***************************************************************************)
EXTENDS Integers, Sequences, FiniteSets, TLC

\* ------------------------------------------------------------------ bounds
MaxRuns == 2
\* the longest dataset file and the longest dataset the store handlers and the
\* aggregator are applied to
MaxFileRows == 2
MaxRecords == 3
\* the most <dl> elements of a detail page the parser is applied to
MaxDls == 2
\* the dates and UI years the window generators are applied to
WindowFirstYear == 2018
WindowLastYear == 2021
WindowLastDay == 28

\* ------------------------------------------------------------ text helpers
DigitChars == <<"0", "1", "2", "3", "4", "5", "6", "7", "8", "9">>

IsDigit(c) == \E d \in 1..10 : DigitChars[d] = c

DigitVal(c) == (CHOOSE d \in 1..10 : DigitChars[d] = c) - 1

RECURSIVE Digits(_)
\* decimal digits of a natural number, as str(n) gives them
Digits(n) == IF n < 10 THEN <<DigitChars[n + 1]>>
             ELSE Digits(n \div 10) \o <<DigitChars[(n % 10) + 1]>>

\* Python's format spec ":02d": sign, then digits zero-padded to width 2 in all
Fmt02(n) ==
    IF n >= 0
    THEN IF n < 10 THEN <<"0">> \o Digits(n) ELSE Digits(n)
    ELSE <<"-">> \o Digits(0 - n)

RECURSIVE DigitsValue(_)
DigitsValue(s) == IF Len(s) = 0 THEN 0
                  ELSE 10 * DigitsValue(SubSeq(s, 1, Len(s) - 1)) + DigitVal(s[Len(s)])

AllDigits(s) == Len(s) > 0 /\ \A i \in 1..Len(s) : IsDigit(s[i])

\* Python's int(text) on the characters the model uses; ok = FALSE is ValueError
ParseInt(s) ==
    IF AllDigits(s) THEN [ok |-> TRUE, v |-> DigitsValue(s)]
    ELSE IF Len(s) > 1 /\ s[1] = "-" /\ AllDigits(Tail(s))
         THEN [ok |-> TRUE, v |-> 0 - DigitsValue(Tail(s))]
         ELSE [ok |-> FALSE, v |-> 0]

\* Python's slice text[a:b] with 0 <= a <= b (0-based, end exclusive, clipped)
Slice(s, a, b) ==
    LET hi == IF b > Len(s) THEN Len(s) ELSE b
    IN  IF a >= hi THEN <<>> ELSE SubSeq(s, a + 1, hi)

\* Python's "t in s" for text
Contains(s, t) ==
    \E p \in 0..(Len(s) - Len(t)) : SubSeq(s, p + 1, p + Len(t)) = t

\* f"<era marker>{reiwa_year:02d}<year mark>"
ReiwaYearStr(reiwa_year) == <<"Rei", "Wa">> \o Fmt02(reiwa_year) \o <<"Nen">>

\* f"<era marker>{reiwa_year:02d}<year mark>{month:02d}<month mark>"
ReiwaPrefix(year, month) ==
    ReiwaYearStr(year - 2018) \o Fmt02(month) \o <<"Gatsu">>

\* ------------------------------------------------------------- date_utils
Date(y, m, d) == [year |-> y, month |-> m, day |-> d]

\* a variant that leaves the current month out on the 12th as well
TargetEnd_TwelfthExcluded(today) ==
    IF today.day <= 12
    THEN IF today.month = 1
         THEN [year |-> today.year - 1, month |-> 12]
         ELSE [year |-> today.year, month |-> today.month - 1]
    ELSE [year |-> today.year, month |-> today.month]

\* the upper bound of generate_target_months for ui_year = today.year
TargetEnd(today) ==
    IF today.day < 12
    THEN IF today.month = 1
         THEN [year |-> today.year - 1, month |-> 12]
         ELSE [year |-> today.year, month |-> today.month - 1]
    ELSE [year |-> today.year, month |-> today.month]

\* the upper bound of generate_target_months_for_full_scan
FullScanEnd(today) ==
    IF today.day < 12
    THEN IF today.month = 1
         THEN [year |-> today.year - 1, month |-> 12]
         ELSE [year |-> today.year, month |-> today.month - 1]
    ELSE [year |-> today.year, month |-> today.month]

RECURSIVE MonthLoop_EndExcluded(_, _, _, _, _)
\* a variant that stops when it reaches the end month
MonthLoop_EndExcluded(current_year, current_month, end_year, end_month, target_set) ==
    IF current_year > end_year \/ (current_year = end_year /\ current_month >= end_month)
    THEN target_set
    ELSE LET added == target_set \cup {ReiwaPrefix(current_year, current_month)}
         IN  IF current_month + 1 > 12
             THEN MonthLoop_EndExcluded(current_year + 1, 1, end_year, end_month, added)
             ELSE MonthLoop_EndExcluded(current_year, current_month + 1, end_year,
                                        end_month, added)

RECURSIVE MonthLoop(_, _, _, _, _)
\* the "while True" loop of both window generators
MonthLoop(current_year, current_month, end_year, end_month, target_set) ==
    IF current_year > end_year \/ (current_year = end_year /\ current_month > end_month)
    THEN target_set
    ELSE LET added == target_set \cup {ReiwaPrefix(current_year, current_month)}
         IN  IF current_month + 1 > 12
             THEN MonthLoop(current_year + 1, 1, end_year, end_month, added)
             ELSE MonthLoop(current_year, current_month + 1, end_year, end_month, added)

\* a variant whose rolling window starts in January of the prior year
generate_target_months_FromJanuary(today, ui_year) ==
    IF ui_year = today.year
    THEN MonthLoop(today.year - 1, 1, TargetEnd(today).year, TargetEnd(today).month, {})
    ELSE MonthLoop(ui_year, 1, ui_year, 12, {})

\* a variant that applies the day-of-month rule to the other years too
generate_target_months_DayRuleEverywhere(today, ui_year) ==
    IF ui_year = today.year
    THEN MonthLoop(today.year - 1, 3, TargetEnd(today).year, TargetEnd(today).month, {})
    ELSE MonthLoop(ui_year, 1, ui_year, IF today.day < 12 THEN 11 ELSE 12, {})

generate_target_months(today, ui_year) ==
    IF ui_year = today.year
    THEN MonthLoop(today.year - 1, 3, TargetEnd(today).year, TargetEnd(today).month, {})
    ELSE MonthLoop(ui_year, 1, ui_year, 12, {})

\* a variant that starts a year early
generate_target_months_for_full_scan_From2018(today) ==
    MonthLoop(2018, 1, FullScanEnd(today).year, FullScanEnd(today).month, {})

\* a variant that starts one month late
generate_target_months_for_full_scan_FromFebruary(today) ==
    MonthLoop(2019, 2, FullScanEnd(today).year, FullScanEnd(today).month, {})

generate_target_months_for_full_scan(today) ==
    MonthLoop(2019, 1, FullScanEnd(today).year, FullScanEnd(today).month, {})

\* ------------------------------------------------------------ csv_handler
\* A field value of a record: an int, a float (n counts tenths) or a text
\* such as the sentinel "N/A".
IntV(k) == [t |-> "int", n |-> k, s |-> ""]
FloatV(tenths) == [t |-> "float", n |-> tenths, s |-> ""]
StrV(text) == [t |-> "str", n |-> 0, s |-> text]
NA == StrV("N/A")

IsNumber(v) == v.t \in {"int", "float"}

\* A cell of the file is text: an integer literal ("1200"), a decimal literal
\* ("1.5", n counts tenths), an integer with a thousands separator ("1,200"),
\* a number followed by the day mark of the legacy format ("1.5" and the mark,
\* n counts tenths) or any other text.
IntLit(k) == [lit |-> "int", n |-> k, s |-> ""]
DecLit(tenths) == [lit |-> "dec", n |-> tenths, s |-> ""]
CommaLit(k) == [lit |-> "comma", n |-> k, s |-> ""]
DayLit(tenths) == [lit |-> "day", n |-> tenths, s |-> ""]
Text(text) == [lit |-> "none", n |-> 0, s |-> text]

\* a variant that writes the integer part of a float
CellOf_Truncated(v) ==
    IF v.t = "int" THEN IntLit(v.n)
    ELSE IF v.t = "float" THEN IntLit(v.n \div 10)
    ELSE Text(v.s)

\* the text csv.DictWriter writes for a value: str(value)
CellOf(v) ==
    IF v.t = "int" THEN IntLit(v.n)
    ELSE IF v.t = "float" THEN DecLit(v.n)
    ELSE Text(v.s)

\* a variant that gives the sentinel for a cell that does not parse
LoadInt_Sentinel(cell) ==
    IF cell.lit \in {"int", "comma"} THEN IntV(cell.n) ELSE NA

\* int(str(cell).replace(',', '')) with 0 on ValueError: an integer literal
\* parses, with or without separators, and nothing else does
LoadInt(cell) == IF cell.lit \in {"int", "comma"} THEN IntV(cell.n) ELSE IntV(0)

\* float(str(cell).replace(<day mark>, '').strip()) with "N/A" for "N/A",
\* None and whatever float() rejects
_safe_convert_to_float(cell) ==
    IF cell.lit = "none" /\ cell.s = "N/A" THEN NA
    ELSE IF cell.lit = "int" THEN FloatV(10 * cell.n)
    ELSE IF cell.lit \in {"dec", "day"} THEN FloatV(cell.n)
    ELSE NA

\* one row of csv.DictReader turned into a record
LoadRow(row) ==
    [date |-> row.date,
     total_pay |-> LoadInt(row.total_pay),
     net_pay |-> LoadInt(row.net_pay),
     overtime |-> _safe_convert_to_float(row.overtime),
     leave_time |-> _safe_convert_to_float(row.leave_time),
     used_days |-> _safe_convert_to_float(row.used_days),
     remaining_days |-> _safe_convert_to_float(row.remaining_days)]

\* the key added to existing_dates for one row: date_str[0:8] when len >= 8
ExistingKeyOf(date_str) ==
    IF Len(date_str) >= 8 THEN {Slice(date_str, 0, 8)} ELSE {}

\* a variant that keeps the rows read before the exception
load_existing_csv_KeepsRows(rows, read_ok) ==
    IF Len(rows) = 0
    THEN [data |-> <<>>, dates |-> {}]
    ELSE [data |-> [i \in 1..Len(rows) |-> LoadRow(rows[i])],
          dates |-> UNION {ExistingKeyOf(rows[i].date) : i \in 1..Len(rows)}]

\* load_existing_csv: rows is the file's content (<<>>: no file), read_ok =
\* FALSE when reading or parsing raises
load_existing_csv(rows, read_ok) ==
    IF Len(rows) = 0 \/ ~read_ok
    THEN [data |-> <<>>, dates |-> {}]
    ELSE [data |-> [i \in 1..Len(rows) |-> LoadRow(rows[i])],
          dates |-> UNION {ExistingKeyOf(rows[i].date) : i \in 1..Len(rows)}]

\* length of the run of digits of s that starts at position p (1-based)
RECURSIVE DigitRun(_, _)
DigitRun(s, p) == IF p <= Len(s) /\ IsDigit(s[p]) THEN 1 + DigitRun(s, p + 1) ELSE 0

\* a match of  <era marker> digits+ <year mark> digits+ <month mark>  at p
ReiwaMatchAt(s, p) ==
    LET a == DigitRun(s, p + 2)
        b == DigitRun(s, p + 3 + a)
    IN  /\ p + 1 <= Len(s)
        /\ s[p] = "Rei" /\ s[p + 1] = "Wa"
        /\ a > 0
        /\ p + 2 + a <= Len(s) /\ s[p + 2 + a] = "Nen"
        /\ b > 0
        /\ p + 3 + a + b <= Len(s) /\ s[p + 3 + a + b] = "Gatsu"

\* _sort_key_for_csv: (year, month) as year * 12 + month, 0 for datetime.min
_sort_key_for_csv(item) ==
    LET s == item.date
        ps == {p \in 1..Len(s) : ReiwaMatchAt(s, p)}
    IN  IF ps = {} THEN 0
        ELSE LET p == CHOOSE q \in ps : \A r \in ps : q <= r
                 a == DigitRun(s, p + 2)
                 b == DigitRun(s, p + 3 + a)
                 year == DigitsValue(SubSeq(s, p + 2, p + 1 + a)) + 2018
                 month == DigitsValue(SubSeq(s, p + 3 + a, p + 2 + a + b))
             IN  IF month \in 1..12 /\ year <= 9999 THEN year * 12 + month ELSE 0

RECURSIVE InsertSorted_BeforeEqual(_, _)
\* a variant that puts x before the elements of the same key
InsertSorted_BeforeEqual(sorted, x) ==
    IF Len(sorted) = 0 THEN <<x>>
    ELSE IF _sort_key_for_csv(sorted[Len(sorted)]) < _sort_key_for_csv(x)
         THEN Append(sorted, x)
         ELSE Append(InsertSorted_BeforeEqual(SubSeq(sorted, 1, Len(sorted) - 1), x),
                     sorted[Len(sorted)])

RECURSIVE InsertSorted(_, _)
\* x goes after every element whose key is not larger (a stable sort)
InsertSorted(sorted, x) ==
    IF Len(sorted) = 0 THEN <<x>>
    ELSE IF _sort_key_for_csv(sorted[Len(sorted)]) <= _sort_key_for_csv(x)
         THEN Append(sorted, x)
         ELSE Append(InsertSorted(SubSeq(sorted, 1, Len(sorted) - 1), x),
                     sorted[Len(sorted)])

RECURSIVE SortedByKey(_)
\* sorted(data_list, key=_sort_key_for_csv)
SortedByKey(data_list) ==
    IF Len(data_list) = 0 THEN <<>>
    ELSE InsertSorted(SortedByKey(SubSeq(data_list, 1, Len(data_list) - 1)),
                      data_list[Len(data_list)])

\* the row DictWriter writes for a record
SaveRow(item) ==
    [date |-> item.date,
     total_pay |-> CellOf(item.total_pay),
     net_pay |-> CellOf(item.net_pay),
     overtime |-> CellOf(item.overtime),
     leave_time |-> CellOf(item.leave_time),
     used_days |-> CellOf(item.used_days),
     remaining_days |-> CellOf(item.remaining_days)]

SaveOutcomes == {"ok", "open_fails", "write_fails"}

\* a variant that reports the path and leaves the file as it was
save_to_csv_KeepsFile(data_list, old_rows, outcome) ==
    IF Len(data_list) = 0 \/ outcome # "ok" THEN [path |-> "", rows |-> old_rows]
    ELSE [path |-> "output/csv", rows |-> old_rows]

\* a variant that writes an empty dataset too
save_to_csv_WritesEmpty(data_list, old_rows, outcome) ==
    IF outcome # "ok" THEN [path |-> "", rows |-> old_rows]
    ELSE [path |-> "output/csv", rows |-> <<>>]

\* save_to_csv: the returned path ("" for None) and the file's new content;
\* open(..., 'w') truncates the file before a failing write
save_to_csv(data_list, old_rows, outcome) ==
    IF Len(data_list) = 0 THEN [path |-> "", rows |-> old_rows]
    ELSE IF outcome = "open_fails" THEN [path |-> "", rows |-> old_rows]
    ELSE IF outcome = "write_fails" THEN [path |-> "", rows |-> <<>>]
    ELSE LET sorted_data_list == SortedByKey(data_list)
         IN  [path |-> "output/csv",
              rows |-> [i \in 1..Len(sorted_data_list) |-> SaveRow(sorted_data_list[i])]]

\* ------------------------------------------------------ summary_calculator
\* a number in tenths, whatever its type
Tenths(v) == IF v.t = "int" THEN 10 * v.n ELSE v.n

\* Python's "+" on two numbers: int + int is an int, anything else a float
Plus(a, b) ==
    IF a.t = "int" /\ b.t = "int" THEN IntV(a.n + b.n)
    ELSE FloatV(Tenths(a) + Tenths(b))

RECURSIVE _sum_safe_Resets(_)
\* a variant that starts over at an item that is no number
_sum_safe_Resets(items) ==
    IF Len(items) = 0 THEN IntV(0)
    ELSE LET total == _sum_safe_Resets(SubSeq(items, 1, Len(items) - 1))
             item == items[Len(items)]
         IN  IF IsNumber(item) THEN Plus(total, item) ELSE IntV(0)

RECURSIVE _sum_safe(_)
\* _sum_safe: total = 0, then every int or float item added in order
_sum_safe(items) ==
    IF Len(items) = 0 THEN IntV(0)
    ELSE LET total == _sum_safe(SubSeq(items, 1, Len(items) - 1))
             item == items[Len(items)]
         IN  IF IsNumber(item) THEN Plus(total, item) ELSE total

\* a dict as the set of its <<key, value>> pairs
Get(dict, key) == (CHOOSE kv \in dict : kv[1] = key)[2]

\* calculate_rekigun_summary
calculate_rekigun_summary(data_list_for_year) ==
    IF Len(data_list_for_year) = 0
    THEN {<<"total_pay", IntV(0)>>, <<"total_net_pay", IntV(0)>>,
          <<"total_overtime", FloatV(0)>>,
          <<"latest_paid_leave_time", NA>>,
          <<"latest_paid_leave_used_days", NA>>,
          <<"latest_paid_leave_remaining_days", NA>>}
    ELSE LET n == Len(data_list_for_year)
             latest_item == data_list_for_year[n]
         IN  {<<"total_pay",
                _sum_safe([i \in 1..n |-> data_list_for_year[i].total_pay])>>,
              <<"total_net_pay",
                _sum_safe([i \in 1..n |-> data_list_for_year[i].net_pay])>>,
              <<"total_overtime",
                _sum_safe([i \in 1..n |-> data_list_for_year[i].overtime])>>,
              <<"latest_paid_leave_time", latest_item.leave_time>>,
              <<"latest_paid_leave_used_days", latest_item.used_days>>,
              <<"latest_paid_leave_remaining_days", latest_item.remaining_days>>}

\* the first match of  <era marker> digits+ <year mark>  in s, 0 for none
YearMatch(s) ==
    LET ps == {p \in 1..Len(s) :
                 /\ p + 1 <= Len(s) /\ s[p] = "Rei" /\ s[p + 1] = "Wa"
                 /\ DigitRun(s, p + 2) > 0
                 /\ p + 2 + DigitRun(s, p + 2) <= Len(s)
                 /\ s[p + 2 + DigitRun(s, p + 2)] = "Nen"}
    IN  IF ps = {} THEN 0 ELSE CHOOSE q \in ps : \A r \in ps : q <= r

\* the first match of  <year mark> digits+ <month mark>  in s, 0 for none
MonthMatch(s) ==
    LET ps == {p \in 1..Len(s) :
                 /\ s[p] = "Nen"
                 /\ DigitRun(s, p + 1) > 0
                 /\ p + 1 + DigitRun(s, p + 1) <= Len(s)
                 /\ s[p + 1 + DigitRun(s, p + 1)] = "Gatsu"}
    IN  IF ps = {} THEN 0 ELSE CHOOSE q \in ps : \A r \in ps : q <= r

\* _parse_year_month_from_date_str: ok = FALSE stands for None
_parse_year_month_from_date_str(date_str) ==
    IF Len(date_str) = 0 \/ YearMatch(date_str) = 0 \/ MonthMatch(date_str) = 0
    THEN [ok |-> FALSE, year |-> 0, month |-> 0]
    ELSE LET p == YearMatch(date_str)
             q == MonthMatch(date_str)
         IN  [ok |-> TRUE,
              year |-> DigitsValue(SubSeq(date_str, p + 2,
                                          p + 1 + DigitRun(date_str, p + 2))) + 2018,
              month |-> DigitsValue(SubSeq(date_str, q + 1, q + DigitRun(date_str, q + 1)))]

RECURSIVE NendoLoop_CalendarYear(_, _, _)
\* a variant that sums the calendar year
NendoLoop_CalendarYear(all_data_list, nendo_start_year, nendo_overtime_total) ==
    IF Len(all_data_list) = 0 THEN nendo_overtime_total
    ELSE LET item == Head(all_data_list)
             parsed_date == _parse_year_month_from_date_str(item.date)
             overtime == IF IsNumber(item.overtime) THEN Tenths(item.overtime) ELSE 0
             counted == parsed_date.ok /\ parsed_date.year = nendo_start_year
         IN  NendoLoop_CalendarYear(Tail(all_data_list), nendo_start_year,
                                    IF counted THEN nendo_overtime_total + overtime
                                    ELSE nendo_overtime_total)

RECURSIVE NendoLoop_ThroughApril(_, _, _)
\* a variant whose fiscal year runs through April of the next year
NendoLoop_ThroughApril(all_data_list, nendo_start_year, nendo_overtime_total) ==
    IF Len(all_data_list) = 0 THEN nendo_overtime_total
    ELSE LET item == Head(all_data_list)
             parsed_date == _parse_year_month_from_date_str(item.date)
             overtime == IF IsNumber(item.overtime) THEN Tenths(item.overtime) ELSE 0
             counted ==
                 /\ parsed_date.ok
                 /\ \/ parsed_date.year = nendo_start_year /\ parsed_date.month \in 4..12
                    \/ parsed_date.year = nendo_start_year + 1 /\ parsed_date.month \in 1..4
         IN  NendoLoop_ThroughApril(Tail(all_data_list), nendo_start_year,
                                    IF counted THEN nendo_overtime_total + overtime
                                    ELSE nendo_overtime_total)

RECURSIVE NendoLoop(_, _, _)
\* the loop of calculate_nendo_overtime, the total in tenths
NendoLoop(all_data_list, nendo_start_year, nendo_overtime_total) ==
    IF Len(all_data_list) = 0 THEN nendo_overtime_total
    ELSE LET item == Head(all_data_list)
             parsed_date == _parse_year_month_from_date_str(item.date)
             overtime == IF IsNumber(item.overtime) THEN Tenths(item.overtime) ELSE 0
             counted ==
                 /\ parsed_date.ok
                 /\ \/ parsed_date.year = nendo_start_year /\ parsed_date.month \in 4..12
                    \/ parsed_date.year = nendo_start_year + 1 /\ parsed_date.month \in 1..3
         IN  NendoLoop(Tail(all_data_list), nendo_start_year,
                       IF counted THEN nendo_overtime_total + overtime
                       ELSE nendo_overtime_total)

\* calculate_nendo_overtime
calculate_nendo_overtime(all_data_list, target_rekigun_year) ==
    IF Len(all_data_list) = 0 THEN FloatV(0)
    ELSE FloatV(NendoLoop(all_data_list, target_rekigun_year, 0))

\* -------------------------------------------------------- network_handler
\* The page a response lands on, by the known path its URL contains.
LOGIN_PAGE_URL == "Login"
MENU_PAGE_URL == "PMenu"
LIST_PAGE_URL == "PShowSB"
DETAIL_PAGE_URL == "PShowSBDetail"
LOGIN_ERR_URL == "PLoginErr"
Urls == {LOGIN_PAGE_URL, MENU_PAGE_URL, LIST_PAGE_URL, DETAIL_PAGE_URL,
         LOGIN_ERR_URL, "Other"}

\* The labels of the detail page.  The page writes the two paid-leave day
\* counts with another character ("kyu" of rest) than the record keys do
\* ("kyu" of pay): "html_used_days" and "html_remaining_days" are the page's.
DetailLabels == {"total_pay", "net_pay", "overtime", "leave_time",
                 "html_used_days", "html_remaining_days",
                 "used_days", "remaining_days"}

\* the value of a <dd> text with the commas removed: float() when it holds a
\* '.', int() otherwise, the raw text on ValueError
DdValue(dd) ==
    IF dd.lit = "dec" THEN FloatV(dd.n)
    ELSE IF dd.lit = "int" THEN IntV(dd.n)
    ELSE StrV(dd.s)

DefaultDetail ==
    [total_pay |-> NA, net_pay |-> NA, overtime |-> NA, leave_time |-> NA,
     used_days |-> NA, remaining_days |-> NA]

\* a variant that stores the two paid-leave day counts under the page's label
StoreDetail_ByLabel(detail_data, key, value_num) ==
    IF key = "total_pay" THEN [detail_data EXCEPT !.total_pay = value_num]
    ELSE IF key = "net_pay" THEN [detail_data EXCEPT !.net_pay = value_num]
    ELSE IF key = "overtime" THEN [detail_data EXCEPT !.overtime = value_num]
    ELSE IF key = "leave_time" THEN [detail_data EXCEPT !.leave_time = value_num]
    ELSE IF key \in {"html_used_days", "html_remaining_days"}
         THEN [k \in DOMAIN detail_data \cup {key} |->
                  IF k = key THEN value_num ELSE detail_data[k]]
    ELSE detail_data

\* the if/elif chain on the <dt> text
StoreDetail(detail_data, key, value_num) ==
    IF key = "total_pay" THEN [detail_data EXCEPT !.total_pay = value_num]
    ELSE IF key = "net_pay" THEN [detail_data EXCEPT !.net_pay = value_num]
    ELSE IF key = "overtime" THEN [detail_data EXCEPT !.overtime = value_num]
    ELSE IF key = "leave_time" THEN [detail_data EXCEPT !.leave_time = value_num]
    ELSE IF key = "html_used_days" THEN [detail_data EXCEPT !.used_days = value_num]
    ELSE IF key = "html_remaining_days"
         THEN [detail_data EXCEPT !.remaining_days = value_num]
    ELSE detail_data

RECURSIVE DetailLoop(_, _)
\* the loop over the <dl> elements of <div id='Html'>, in page order
DetailLoop(dls, detail_data) ==
    IF Len(dls) = 0 THEN detail_data
    ELSE DetailLoop(Tail(dls), StoreDetail(detail_data, Head(dls).dt, DdValue(Head(dls).dd)))

\* a detail page: whether it has <div id='Html'>, and the (dt, dd) pairs in it
parse_payslip_detail(page) ==
    IF ~page.html_div THEN DefaultDetail ELSE DetailLoop(page.dls, DefaultDetail)

\* final_data_row
DataRow(date_str, extracted_detail) ==
    [date |-> date_str,
     total_pay |-> extracted_detail.total_pay,
     net_pay |-> extracted_detail.net_pay,
     overtime |-> extracted_detail.overtime,
     leave_time |-> extracted_detail.leave_time,
     used_days |-> extracted_detail.used_days,
     remaining_days |-> extracted_detail.remaining_days]

\* a variant without the filter on the year
TargetDatesForYear_All(final_target_dates_set, year) == final_target_dates_set

\* this year's part of the delta:
\* {p in final_target_dates_set : target_reiwa_year_str in p}
TargetDatesForYear(final_target_dates_set, year) ==
    {date_prefix \in final_target_dates_set :
        Contains(date_prefix, ReiwaYearStr(year - 2018))}

RECURSIVE ScanRows_AnyYear(_, _)
\* a variant of the scan that takes the rows of every year
ScanRows_AnyYear(rows, target_reiwa_year_str) ==
    IF Len(rows) = 0 THEN <<>>
    ELSE LET row == Head(rows)
             rest == ScanRows_AnyYear(Tail(rows), target_reiwa_year_str)
         IN  IF row.cells < 3 THEN rest
             ELSE IF row.button # ""
                  THEN <<[date |-> row.date, html_button_name |-> row.button]>> \o rest
                  ELSE rest

RECURSIVE ScanRows(_, _)
\* the scan of the list table: a row has its number of cells, the text of the
\* third cell and the name of the button in the second ("" when it has none)
ScanRows(rows, target_reiwa_year_str) ==
    IF Len(rows) = 0 THEN <<>>
    ELSE LET row == Head(rows)
             rest == ScanRows(Tail(rows), target_reiwa_year_str)
         IN  IF row.cells < 3 THEN rest
             ELSE IF Contains(row.date, target_reiwa_year_str) /\ row.button # ""
                  THEN <<[date |-> row.date, html_button_name |-> row.button]>> \o rest
                  ELSE rest

\* target_payslips of a list page; rows[1:] drops the header row
TargetPayslips(page, year) ==
    IF ~page.table \/ Len(page.rows) = 0 THEN <<>>
    ELSE ScanRows(Tail(page.rows), ReiwaYearStr(year - 2018))

\* a variant that leaves the session as it is
SessionAfterWith_Leaks(s) == s

\* the with-block of the session: the session is closed when the block is left
SessionAfterWith(s) == IF s = "open" THEN "closed" ELSE s

\* "PAGE_URL in resp.url"
Landed(url, page_url) == url = page_url

\* the row's month key date_str[0:8] is in the delta
InDelta(date_str, final_target_dates_set) ==
    Slice(date_str, 0, 8) \in final_target_dates_set

\* The values run_automation returns.
Return(success, message, records) ==
    [success |-> success, message |-> message, records |-> records]

\* the year has no month in the delta
SkippedReturn == Return(TRUE, "skipped", <<>>)

\* a variant that does not tell the error redirect from any other page
LoginFailed_OneMessage(url) == [success |-> FALSE, message |-> "unexpected_page", records |-> <<>>]

\* the login POST did not land on the menu page
LoginFailed(url) ==
    IF url = LOGIN_ERR_URL THEN Return(FALSE, "invalid_credentials", <<>>)
    ELSE Return(FALSE, "unexpected_page", <<>>)

\* the list POST did not land on the list page
ListFailed == Return(FALSE, "list_transition_failed", <<>>)

\* a variant that hands back the records collected so far
GoBackFailed_KeepsRecords(new_payslip_data_list) ==
    [success |-> FALSE, message |-> "go_back_failed", records |-> new_payslip_data_list]

\* the go-back POST did not land on the list page
GoBackFailed(new_payslip_data_list) == Return(FALSE, "go_back_failed", <<>>)

\* the two except clauses
Excepted(o) ==
    IF o.kind = "unexpected" THEN Return(FALSE, "unexpected_error", <<>>)
    ELSE Return(FALSE, "http_error", <<>>)

\* a variant in which an exception of the logout POST reaches the except clauses
AfterLogout_Raises(o, new_payslip_data_list) ==
    IF o.kind = "ok" THEN [success |-> TRUE, message |-> "completed",
                           records |-> new_payslip_data_list]
    ELSE [success |-> FALSE, message |-> "http_error", records |-> <<>>]

\* the return after the logout step, whatever the logout POST came to
AfterLogout(o, new_payslip_data_list) == Return(TRUE, "completed", new_payslip_data_list)

\* -------------------------------------------------------- main_controller
\* a variant that converts the era year with the wrong offset
TargetYearsToRun_OffByOne(required_months_set) ==
    {ParseInt(Slice(q, 2, 4)).v + 2019 :
        q \in {r \in required_months_set : ParseInt(Slice(r, 2, 4)).ok}}

\* target_years_to_run: int(prefix[2:4]) + 2018 of every required prefix, a
\* prefix whose characters 2..3 are no integer being passed over
TargetYearsToRun(required_months_set) ==
    {ParseInt(Slice(q, 2, 4)).v + 2018 :
        q \in {r \in required_months_set : ParseInt(Slice(r, 2, 4)).ok}}

\* a variant that does not subtract the months already present
FinalTargetDates_NoSubtract(required_months_set, all_existing_dates_set) ==
    required_months_set

\* final_target_dates_set = required_months_set - all_existing_dates_set
FinalTargetDates(required_months_set, all_existing_dates_set) ==
    required_months_set \ all_existing_dates_set

RECURSIVE SortedList_Descending(_)
\* a variant that lists the largest first
SortedList_Descending(S) ==
    IF S = {} THEN <<>>
    ELSE LET most == CHOOSE x \in S : \A y \in S : x >= y
         IN  <<most>> \o SortedList_Descending(S \ {most})

RECURSIVE SortedList(_)
\* sorted(list(a set of integers))
SortedList(S) ==
    IF S = {} THEN <<>>
    ELSE LET least == CHOOSE x \in S : \A y \in S : x <= y
         IN  <<least>> \o SortedList(S \ {least})

\* a variant for a store written with the raw text, encrypt() not called
encrypt_NotCalled(plain_text) == [from_encrypt |-> FALSE, text |-> plain_text]

\* what encrypt() returns for a plain text: the token of the cipher, or the
\* plain text itself when no cipher is available; the result is kept opaque
\* and marked as encrypt's output for that text
encrypt(plain_text) == [from_encrypt |-> TRUE, text |-> plain_text]

\* the records of the UI's year, sorted for display
FinalDataUi(all_existing_data, ui_target_year) ==
    SortedByKey(SelectSeq(all_existing_data,
        LAMBDA item : Contains(item.date, ReiwaYearStr(ui_target_year - 2018))))

\* a value of calc_item: anything that is not a number becomes 0.0
CalcValue(val) == IF IsNumber(val) THEN val ELSE FloatV(0)

\* calc_item: the record with its six value fields made numeric
CalcItem(item) ==
    [date |-> item.date,
     total_pay |-> CalcValue(item.total_pay),
     net_pay |-> CalcValue(item.net_pay),
     overtime |-> CalcValue(item.overtime),
     leave_time |-> CalcValue(item.leave_time),
     used_days |-> CalcValue(item.used_days),
     remaining_days |-> CalcValue(item.remaining_days)]

\* a variant that keeps the latest fields the aggregator computed from the
\* numeric copies
SummaryDataRekigun_FromCalc(final_data_ui) ==
    IF Len(final_data_ui) = 0 THEN {}
    ELSE calculate_rekigun_summary(
             [i \in 1..Len(final_data_ui) |-> CalcItem(final_data_ui[i])])

\* summary_data_rekigun: the empty dict without a record of the UI's year,
\* else the calendar-year summary with the three latest fields overwritten
\* from the last original record
SummaryDataRekigun(final_data_ui) ==
    IF Len(final_data_ui) = 0 THEN {}
    ELSE LET calc_data_list == [i \in 1..Len(final_data_ui) |-> CalcItem(final_data_ui[i])]
             computed == calculate_rekigun_summary(calc_data_list)
             latest_item_original == final_data_ui[Len(final_data_ui)]
         IN  {kv \in computed : kv[1] \in {"total_pay", "total_net_pay", "total_overtime"}}
             \cup {<<"latest_paid_leave_time", latest_item_original.leave_time>>,
                   <<"latest_paid_leave_used_days", latest_item_original.used_days>>,
                   <<"latest_paid_leave_remaining_days",
                     latest_item_original.remaining_days>>}

\* other_years_data: the number of records of every other year that was run
OtherYearsData(all_existing_data, target_years_to_run, ui_target_year) ==
    {<<y, Len(SelectSeq(all_existing_data,
                 LAMBDA item : Contains(item.date, ReiwaYearStr(y - 2018))))>> :
        y \in target_years_to_run \ {ui_target_year}}

NoSummary == [final_data_ui |-> <<>>, summary_data_rekigun |-> {},
              summary_nendo_overtime |-> FloatV(0), other_years_data |-> {}]

NoResult == [success |-> FALSE, keys |-> {}, error |-> "", warning |-> "", csv_path |-> "",
             data |-> NoSummary]

\* (False, {"error": message})
ErrorResult(message) ==
    [success |-> FALSE, keys |-> {"error"}, error |-> message, warning |-> "",
     csv_path |-> "", data |-> NoSummary]

\* (True, {"warning": ...}) of a failed credential write
WarningResult ==
    [success |-> TRUE, keys |-> {"warning"}, error |-> "", warning |-> "env_write_failed",
     csv_path |-> "", data |-> NoSummary]

\* a variant that returns before the summaries are computed
SuccessResult_NoSummary(all_existing_data, target_years_to_run, ui_year) ==
    [success |-> TRUE, keys |-> {"csv_path", "ui_target_year"},
     error |-> "", warning |-> "", csv_path |-> "output/csv", data |-> NoSummary]

\* steps 7 to 9 of run_main_logic: (True, success_result)
SuccessResult(all_existing_data, target_years_to_run, ui_year) ==
    [success |-> TRUE,
     keys |-> {"csv_path", "ui_target_year", "final_data_ui", "summary_data_rekigun",
               "summary_nendo_overtime", "other_years_data"},
     error |-> "", warning |-> "", csv_path |-> "output/csv",
     data |-> [final_data_ui |-> FinalDataUi(all_existing_data, ui_year),
               summary_data_rekigun |->
                   SummaryDataRekigun(FinalDataUi(all_existing_data, ui_year)),
               summary_nendo_overtime |->
                   calculate_nendo_overtime(all_existing_data, ui_year),
               other_years_data |->
                   OtherYearsData(all_existing_data, target_years_to_run, ui_year)]]

\* ------------------------------------------------------------------ inputs
Suffix == <<"Do", "Kyu", "Yo">>

\* the date text of the portal's row for a month
Label(year, month) == ReiwaPrefix(year, month) \o Suffix

FileRow(year, month) ==
    [date |-> Label(year, month), total_pay |-> IntLit(1000), net_pay |-> IntLit(800),
     overtime |-> DecLit(15), leave_time |-> Text("N/A"), used_days |-> DecLit(10),
     remaining_days |-> DecLit(100)]

RECURSIVE FileRows(_, _, _, _)
\* a dataset file holding the months from (y, m) through (ey, em)
FileRows(y, m, ey, em) ==
    IF y > ey \/ (y = ey /\ m > em) THEN <<>>
    ELSE <<FileRow(y, m)>> \o (IF m = 12 THEN FileRows(y + 1, 1, ey, em)
                                ELSE FileRows(y, m + 1, ey, em))

\* the dataset files a behaviour may start from
Files == {<<>>, FileRows(2019, 1, 2019, 11), FileRows(2019, 1, 2020, 1)}

HeaderRow == [cells |-> 0, date |-> <<>>, button |-> <<>>]
ListRow(year, month) ==
    [cells |-> 4, date |-> Label(year, month), button |-> <<"cmdShowSB", year, month>>]

\* the list pages the portal may serve
ListPages ==
    {[table |-> FALSE, rows |-> <<>>],
     [table |-> TRUE,
      rows |-> <<HeaderRow, ListRow(2020, 2), ListRow(2020, 1), ListRow(2019, 12)>>],
     [table |-> TRUE,
      rows |-> <<HeaderRow,
                 [cells |-> 2, date |-> Label(2020, 2), button |-> <<"cmdShowSB", 2020, 2>>],
                 [cells |-> 4, date |-> Label(2020, 2), button |-> <<>>],
                 ListRow(2020, 1), ListRow(2019, 12)>>]}

\* the detail page the portal serves for a row
DetailPageOf(date_str) ==
    IF date_str = Label(2020, 1)
    THEN [html_div |-> TRUE,
          dls |-> <<[dt |-> "total_pay", dd |-> IntLit(2000)],
                    [dt |-> "overtime", dd |-> Text("N/A")],
                    [dt |-> "html_used_days", dd |-> DecLit(15)]>>]
    ELSE [html_div |-> TRUE,
          dls |-> <<[dt |-> "total_pay", dd |-> IntLit(1000)],
                    [dt |-> "net_pay", dd |-> IntLit(800)],
                    [dt |-> "overtime", dd |-> DecLit(25)],
                    [dt |-> "leave_time", dd |-> IntLit(8)],
                    [dt |-> "html_used_days", dd |-> DecLit(10)],
                    [dt |-> "html_remaining_days", dd |-> DecLit(95)]>>]

\* the requests of a run: today, the UI's year, the mode flag
Scenarios == {<<Date(2020, 2, 12), 2020, FALSE>>, <<Date(2020, 2, 12), 2019, TRUE>>,
              <<Date(2020, 1, 5), 2020, FALSE>>, <<Date(2020, 2, 12), 2019, FALSE>>,
              <<Date(2019, 1, 5), 2019, TRUE>>, <<Date(2020, 2, 12), 2021, FALSE>>}
LoginIds == {"id1"}
Passwords == {"pw1"}

\* What a request can come to: a response that passes raise_for_status (kind
\* "ok"), a RequestException raised by the request or by raise_for_status on
\* its response (kind "transport"), or any other exception.
Resp(url) == [kind |-> "ok", url |-> url]
Raised == {[kind |-> "transport", url |-> ""], [kind |-> "unexpected", url |-> ""]}
GetOutcomes == {Resp(LOGIN_PAGE_URL)} \cup Raised
LoginOutcomes == {Resp(MENU_PAGE_URL), Resp(LOGIN_ERR_URL), Resp("Other")} \cup Raised
ListOutcomes == {Resp(LIST_PAGE_URL), Resp("Other")} \cup Raised
DetailOutcomes == {Resp(DETAIL_PAGE_URL), Resp(LIST_PAGE_URL)} \cup Raised
BackOutcomes == {Resp(LIST_PAGE_URL), Resp("Other")} \cup Raised
LogoutOutcomes == {Resp(LOGIN_PAGE_URL)} \cup Raised
EnvOutcomes == {"ok", "first_fails", "second_fails"}

\* ------------------------------------------------------------------- state
VARIABLES
    file,              \* the rows of the persisted dataset file (<<>>: no file)
    env,               \* the two credential entries of the credential store
    portal,            \* the list page the portal serves
    runs,              \* number of runs started
    prev,              \* the run before this one
    rpc,               \* run_main_logic: "idle", "loop", "finish", "done"
    today, ui_target_year, full_scan, login_id, password,
    read_ok,           \* FALSE when reading the file raised in this run
    required,          \* required_months_set
    years_to_run,      \* target_years_to_run
    years_left,        \* the years of the for loop still to come
    existing_data,     \* all_existing_data
    existing_dates,    \* all_existing_dates_set
    delta,             \* final_target_dates_set
    all_new,           \* all_new_data_list
    http,              \* http_success, http_message
    save_call,         \* the save_to_csv call of the run: made or not, its
                       \* I/O outcome and csv_path_result ("" for None)
    result,            \* what run_main_logic returned
    file0,             \* the file when the run started
    calls,             \* what each run_automation call of the run returned
    pc,                \* run_automation: "idle", "get", "login", "list", "rows", "back"
    target_year,
    target_payslips,
    idx,               \* position of the row loop (1-based)
    new_list,          \* new_payslip_data_list
    form,              \* the response whose hidden fields are cached
    cur_url,           \* the URL the next POST goes to
    session,           \* "none", "open", "closed"
    requests,          \* the requests the run has sent, in order
    nresp              \* number of responses received in the run

persistv == <<file, env, portal>>
inputv == <<today, ui_target_year, full_scan, login_id, password, read_ok>>
loadv == <<required, years_to_run, existing_data, existing_dates, delta, file0, prev>>
NoSaveCall == [called |-> FALSE, outcome |-> "", path |-> ""]
loopv == <<rpc, years_left, all_new, http, calls>>
callv == <<target_year, target_payslips, idx, new_list, form, cur_url>>
vars == <<persistv, runs, inputv, loadv, loopv, save_call, result, pc, callv, session,
          requests, nresp>>

NoCredential == [from_encrypt |-> FALSE, text |-> ""]
NoPrev == [required |-> {}, existing |-> {}, delta |-> {}, merged_all |-> FALSE,
           success |-> FALSE, read_ok |-> TRUE, skipped |-> {}]

\* the state before run_main_logic is called, but for the file, the portal
\* and the three inputs of the window
InitRest ==
    /\ env = [MY_LOGIN_ID |-> NoCredential, MY_PASSWORD |-> NoCredential]
    /\ runs = 0
    /\ prev = NoPrev
    /\ rpc = "idle"
    /\ login_id = "" /\ password = "" /\ read_ok = TRUE
    /\ required = {} /\ years_to_run = {} /\ years_left = <<>>
    /\ existing_data = <<>> /\ existing_dates = {} /\ delta = {}
    /\ all_new = <<>>
    /\ http = [success |-> TRUE, message |-> ""]
    /\ result = NoResult
    /\ save_call = NoSaveCall
    /\ file0 = file
    /\ calls = <<>>
    /\ pc = "idle"
    /\ target_year = 0 /\ target_payslips = <<>> /\ idx = 1 /\ new_list = <<>>
    /\ form = 0 /\ cur_url = ""
    /\ session = "none"
    /\ requests = <<>>
    /\ nresp = 0

Init ==
    /\ file \in Files
    /\ portal \in ListPages
    /\ today = Date(2020, 2, 12) /\ ui_target_year = 2020 /\ full_scan = FALSE
    /\ InitRest

\* a variant that keeps the hidden fields and URL cached before
Refreshed_Stale(resp, url) == [form |-> form, cur_url |-> cur_url]

\* the cached hidden fields and URL taken from a response
Refreshed(resp, url) == [form |-> resp, cur_url |-> url]

\* the month keys of a list of records or rows
KeysOf(data) == {Slice(data[i].date, 0, 8) : i \in 1..Len(data)}

\* ----------------------------------------------------------------- actions
\* run_main_logic up to the for loop: the window, the years, the load and the
\* delta; with an empty delta the run goes straight to the summary
BeginRun(t, ui, fs, id, pw, rd) ==
    /\ LET req == IF ~fs THEN generate_target_months(t, ui)
                  ELSE generate_target_months_for_full_scan(t)
           loaded == load_existing_csv(file, rd)
           d == FinalTargetDates(req, loaded.dates)
       IN  /\ required' = req
           /\ years_to_run' = TargetYearsToRun(req)
           /\ existing_data' = loaded.data
           /\ existing_dates' = loaded.dates
           /\ delta' = d
           /\ years_left' = SortedList(TargetYearsToRun(req))
           /\ IF d = {}
              THEN rpc' = "done" /\ result' = SuccessResult(loaded.data, TargetYearsToRun(req), ui)
              ELSE rpc' = "loop" /\ result' = NoResult
    /\ prev' = [required |-> required, existing |-> existing_dates, delta |-> delta,
                merged_all |-> /\ rpc = "done"
                               /\ result.success /\ "csv_path" \in result.keys
                               /\ delta \subseteq KeysOf(all_new),
                success |-> rpc = "done" /\ result.success,
                read_ok |-> read_ok,
                skipped |-> {Slice(requests[i].target, 0, 8) :
                                i \in {j \in 1..Len(requests) :
                                         /\ requests[j].kind = "detail"
                                         /\ requests[j].out = "ok"
                                         /\ requests[j].url # DETAIL_PAGE_URL}}]
    /\ runs' = runs + 1
    /\ today' = t /\ ui_target_year' = ui /\ full_scan' = fs
    /\ login_id' = id /\ password' = pw /\ read_ok' = rd
    /\ file0' = file
    /\ all_new' = <<>>
    /\ save_call' = NoSaveCall
    /\ http' = [success |-> TRUE, message |-> ""]
    /\ calls' = <<>>
    /\ pc' = "idle"
    /\ target_year' = 0 /\ target_payslips' = <<>> /\ idx' = 1 /\ new_list' = <<>>
    /\ form' = 0 /\ cur_url' = ""
    /\ session' = "none"
    /\ requests' = <<>>
    /\ nresp' = 0
    /\ UNCHANGED persistv

\* a variant without the break: a failed year is noted and the loop goes on
ReturnToLoop_NoBreak(year, ret, session_at_return) ==
    /\ calls' = Append(calls, [year |-> year, success |-> ret.success,
                               message |-> ret.message, records |-> ret.records,
                               session |-> session_at_return])
    /\ http' = IF ret.success THEN http ELSE [success |-> FALSE, message |-> ret.message]
    /\ all_new' = all_new \o ret.records
    /\ years_left' = Tail(years_left)
    /\ rpc' = IF Len(years_left) = 1 THEN "finish" ELSE "loop"

\* the controller's handling of what run_automation returned: break on a
\* failure, extend all_new_data_list otherwise
ReturnToLoop(year, ret, session_at_return) ==
    /\ calls' = Append(calls, [year |-> year, success |-> ret.success,
                               message |-> ret.message, records |-> ret.records,
                               session |-> session_at_return])
    /\ IF ~ret.success
       THEN /\ http' = [success |-> FALSE, message |-> ret.message]
            /\ rpc' = "finish"
            /\ UNCHANGED <<all_new, years_left>>
       ELSE /\ all_new' = all_new \o ret.records
            /\ years_left' = Tail(years_left)
            /\ rpc' = IF Len(years_left) = 1 THEN "finish" ELSE "loop"
            /\ UNCHANGED http

\* a return of run_automation from inside or after the with-block
ExitCall(ret) ==
    /\ pc' = "idle"
    /\ session' = SessionAfterWith(session)
    /\ ReturnToLoop(target_year, ret, SessionAfterWith(session))

\* one request sent and its outcome
Send(kind, to, hidden, target, o) ==
    /\ requests' = Append(requests,
          [call |-> Len(calls) + 1, kind |-> kind, to |-> to, form |-> hidden,
           target |-> target, out |-> o.kind, url |-> o.url, resp |-> nresp + 1])
    /\ nresp' = nresp + 1

\* the next year of the for loop: run_automation up to the opening of the
\* session, or its return when the year has no month in the delta
CallYear ==
    /\ rpc = "loop" /\ pc = "idle"
    /\ LET year == Head(years_left)
       IN  IF TargetDatesForYear(delta, year) = {}
           THEN /\ ReturnToLoop(year, SkippedReturn, "none")
                /\ session' = "none"
                /\ UNCHANGED <<pc, callv>>
           ELSE /\ pc' = "get"
                /\ session' = "open"
                /\ target_year' = year
                /\ new_list' = <<>>
                /\ target_payslips' = <<>> /\ idx' = 1 /\ form' = 0 /\ cur_url' = ""
                /\ UNCHANGED loopv
    /\ UNCHANGED <<persistv, runs, inputv, loadv, save_call, result, requests, nresp>>

\* step 1: GET of the login page
GetLoginPage(o) ==
    /\ pc = "get"
    /\ Send("get", LOGIN_PAGE_URL, 0, <<>>, o)
    /\ IF o.kind # "ok"
       THEN ExitCall(Excepted(o)) /\ UNCHANGED callv
       ELSE /\ pc' = "login"
            /\ form' = Refreshed(nresp + 1, o.url).form
            /\ cur_url' = LOGIN_PAGE_URL
            /\ UNCHANGED <<target_year, target_payslips, idx, new_list, session, loopv>>
    /\ UNCHANGED <<persistv, runs, inputv, loadv, save_call, result>>

\* step 2: the login POST and the check of where it landed
PostLogin(o) ==
    /\ pc = "login"
    /\ Send("login", LOGIN_PAGE_URL, form, <<>>, o)
    /\ IF o.kind # "ok"
       THEN ExitCall(Excepted(o)) /\ UNCHANGED callv
       ELSE IF ~Landed(o.url, MENU_PAGE_URL)
       THEN ExitCall(LoginFailed(o.url)) /\ UNCHANGED callv
       ELSE /\ pc' = "list"
            /\ form' = Refreshed(nresp + 1, o.url).form
            /\ cur_url' = Refreshed(nresp + 1, o.url).cur_url
            /\ UNCHANGED <<target_year, target_payslips, idx, new_list, session, loopv>>
    /\ UNCHANGED <<persistv, runs, inputv, loadv, save_call, result>>

\* steps 3 to 5: the POST to the list page and the scan of its table
PostList(o) ==
    /\ pc = "list"
    /\ Send("list", cur_url, form, <<>>, o)
    /\ IF o.kind # "ok"
       THEN ExitCall(Excepted(o)) /\ UNCHANGED callv
       ELSE IF ~Landed(o.url, LIST_PAGE_URL)
       THEN ExitCall(ListFailed) /\ UNCHANGED callv
       ELSE /\ pc' = "rows"
            /\ form' = Refreshed(nresp + 1, o.url).form
            /\ cur_url' = Refreshed(nresp + 1, o.url).cur_url
            /\ target_payslips' = TargetPayslips(portal, target_year)
            /\ idx' = 1
            /\ UNCHANGED <<target_year, new_list, session, loopv>>
    /\ UNCHANGED <<persistv, runs, inputv, loadv, save_call, result>>

\* step 6, a row whose month key is not in the delta: no request
SkipRow ==
    /\ pc = "rows" /\ idx <= Len(target_payslips)
    /\ ~InDelta(target_payslips[idx].date, delta)
    /\ idx' = idx + 1
    /\ UNCHANGED <<persistv, runs, inputv, loadv, loopv, save_call, result, pc, target_year,
                   target_payslips, new_list, form, cur_url, session, requests, nresp>>

\* a variant that makes a record of a row whose detail POST did not land
PostDetail_KeepsSkippedRow(o) ==
    /\ pc = "rows" /\ idx <= Len(target_payslips)
    /\ InDelta(target_payslips[idx].date, delta)
    /\ Send("detail", cur_url, form, target_payslips[idx].date, o)
    /\ IF o.kind # "ok"
       THEN ExitCall(Excepted(o)) /\ UNCHANGED callv
       ELSE IF ~Landed(o.url, DETAIL_PAGE_URL)
       THEN /\ form' = Refreshed(nresp + 1, o.url).form
            /\ cur_url' = Refreshed(nresp + 1, o.url).cur_url
            /\ idx' = idx + 1
            /\ new_list' = Append(new_list,
                  DataRow(target_payslips[idx].date,
                          parse_payslip_detail(DetailPageOf(target_payslips[idx].date))))
            /\ UNCHANGED <<pc, target_year, target_payslips, session, loopv>>
       ELSE /\ new_list' = Append(new_list,
                  DataRow(target_payslips[idx].date,
                          parse_payslip_detail(DetailPageOf(target_payslips[idx].date))))
            /\ pc' = "back"
            /\ form' = nresp + 1
            /\ cur_url' = o.url
            /\ UNCHANGED <<target_year, target_payslips, idx, session, loopv>>
    /\ UNCHANGED <<persistv, runs, inputv, loadv, save_call, result>>

\* step 6, a row of the delta: the detail POST, and the record when it landed
\* on the detail page
PostDetail(o) ==
    /\ pc = "rows" /\ idx <= Len(target_payslips)
    /\ InDelta(target_payslips[idx].date, delta)
    /\ Send("detail", cur_url, form, target_payslips[idx].date, o)
    /\ IF o.kind # "ok"
       THEN ExitCall(Excepted(o)) /\ UNCHANGED callv
       ELSE IF ~Landed(o.url, DETAIL_PAGE_URL)
       THEN /\ form' = Refreshed(nresp + 1, o.url).form
            /\ cur_url' = Refreshed(nresp + 1, o.url).cur_url
            /\ idx' = idx + 1
            /\ UNCHANGED <<pc, target_year, target_payslips, new_list, session, loopv>>
       ELSE /\ new_list' = Append(new_list,
                  DataRow(target_payslips[idx].date,
                          parse_payslip_detail(DetailPageOf(target_payslips[idx].date))))
            /\ pc' = "back"
            /\ form' = nresp + 1
            /\ cur_url' = o.url
            /\ UNCHANGED <<target_year, target_payslips, idx, session, loopv>>
    /\ UNCHANGED <<persistv, runs, inputv, loadv, save_call, result>>

\* a variant that goes on with the hidden fields it had before the go-back
PostGoBack_NoRefresh(o) ==
    /\ pc = "back"
    /\ Send("back", cur_url, form, target_payslips[idx].date, o)
    /\ IF o.kind # "ok"
       THEN ExitCall(Excepted(o)) /\ UNCHANGED callv
       ELSE IF ~Landed(o.url, LIST_PAGE_URL)
       THEN ExitCall(GoBackFailed(new_list)) /\ UNCHANGED callv
       ELSE /\ pc' = "rows"
            /\ cur_url' = o.url
            /\ idx' = idx + 1
            /\ UNCHANGED <<target_year, target_payslips, new_list, form, session, loopv>>
    /\ UNCHANGED <<persistv, runs, inputv, loadv, save_call, result>>

\* step 6-B: the go-back POST from the detail page
PostGoBack(o) ==
    /\ pc = "back"
    /\ Send("back", cur_url, form, target_payslips[idx].date, o)
    /\ IF o.kind # "ok"
       THEN ExitCall(Excepted(o)) /\ UNCHANGED callv
       ELSE IF ~Landed(o.url, LIST_PAGE_URL)
       THEN ExitCall(GoBackFailed(new_list)) /\ UNCHANGED callv
       ELSE /\ pc' = "rows"
            /\ form' = Refreshed(nresp + 1, o.url).form
            /\ cur_url' = Refreshed(nresp + 1, o.url).cur_url
            /\ idx' = idx + 1
            /\ UNCHANGED <<target_year, target_payslips, new_list, session, loopv>>
    /\ UNCHANGED <<persistv, runs, inputv, loadv, save_call, result>>

\* step 7 and the normal return: the logout POST, whose exceptions are
\* swallowed and whose status is not looked at
PostLogout(o) ==
    /\ pc = "rows" /\ idx > Len(target_payslips)
    /\ Send("logout", cur_url, form, <<>>, o)
    /\ ExitCall(AfterLogout(o, new_list))
    /\ UNCHANGED <<persistv, runs, inputv, loadv, save_call, result, callv>>

\* run_main_logic after the for loop: the credential write, the merge and the
\* save, and the result
FinishRun(env_outcome, save_outcome) ==
    /\ rpc = "finish"
    /\ rpc' = "done"
    /\ IF ~http.success
       THEN /\ result' = ErrorResult(http.message)
            /\ UNCHANGED <<file, env, existing_data, save_call>>
       ELSE IF env_outcome # "ok"
       THEN /\ env' = IF env_outcome = "second_fails"
                      THEN [env EXCEPT !.MY_LOGIN_ID = encrypt(login_id)]
                      ELSE env
            /\ result' = WarningResult
            /\ UNCHANGED <<file, existing_data, save_call>>
       ELSE LET merged == existing_data \o all_new
                saved == save_to_csv(merged, file, save_outcome)
            IN  /\ env' = [MY_LOGIN_ID |-> encrypt(login_id),
                           MY_PASSWORD |-> encrypt(password)]
                /\ existing_data' = merged
                /\ file' = saved.rows
                /\ save_call' = [called |-> TRUE, outcome |-> save_outcome,
                                 path |-> saved.path]
                /\ result' = IF saved.path = ""
                             THEN ErrorResult("csv_save_failed")
                             ELSE SuccessResult(merged, years_to_run, ui_target_year)
    /\ UNCHANGED <<portal, runs, inputv, required, years_to_run, existing_dates, delta,
                   file0, prev, years_left, all_new, http, calls, pc, callv, session,
                   requests, nresp>>

\* the first run of a behaviour
StartRun(sc, id, pw, rd) ==
    /\ rpc = "idle"
    /\ BeginRun(sc[1], sc[2], sc[3], id, pw, rd)

\* a later run, on the file and the credential store the runs before left
StartNextRun(sc, id, pw, rd) ==
    /\ rpc = "done"
    /\ runs < MaxRuns
    /\ BeginRun(sc[1], sc[2], sc[3], id, pw, rd)

\* the steps of one run
RunStep ==
    \/ CallYear
    \/ \E o \in GetOutcomes : GetLoginPage(o)
    \/ \E o \in LoginOutcomes : PostLogin(o)
    \/ \E o \in ListOutcomes : PostList(o)
    \/ SkipRow
    \/ \E o \in DetailOutcomes : PostDetail(o)
    \/ \E o \in BackOutcomes : PostGoBack(o)
    \/ \E o \in LogoutOutcomes : PostLogout(o)
    \/ \E e \in EnvOutcomes, sv \in SaveOutcomes : FinishRun(e, sv)

\* one run per behaviour
Next ==
    \/ \E sc \in Scenarios, id \in LoginIds, pw \in Passwords, rd \in BOOLEAN :
          StartRun(sc, id, pw, rd)
    \/ RunStep

Spec == Init /\ [][Next]_vars

\* what the form may hold when a button is pressed
FormLoginIds == {"", "id1"}
FormPasswords == {"", "pw1"}

\* a variant that looks at the login ID only
Submit_IdOnly(sc, id, pw, rd) ==
    /\ rpc = "idle"
    /\ IF id = ""
       THEN /\ rpc' = "rejected"
            /\ login_id' = id /\ password' = pw
            /\ UNCHANGED <<persistv, runs, today, ui_target_year, full_scan, read_ok, loadv,
                           years_left, all_new, http, calls, save_call, result, pc, callv,
                           session, requests, nresp>>
       ELSE BeginRun(sc[1], sc[2], sc[3], id, pw, rd)

\* the form's button handler: st.error without the ID or the password,
\* run_main_logic otherwise
Submit(sc, id, pw, rd) ==
    /\ rpc = "idle"
    /\ IF id = "" \/ pw = ""
       THEN /\ rpc' = "rejected"
            /\ login_id' = id /\ password' = pw
            /\ UNCHANGED <<persistv, runs, today, ui_target_year, full_scan, read_ok, loadv,
                           years_left, all_new, http, calls, save_call, result, pc, callv,
                           session, requests, nresp>>
       ELSE BeginRun(sc[1], sc[2], sc[3], id, pw, rd)

NextSubmit ==
    \/ \E sc \in Scenarios, id \in FormLoginIds, pw \in FormPasswords, rd \in BOOLEAN :
          Submit(sc, id, pw, rd)
    \/ RunStep

\* one press of a button per behaviour
SpecSubmit == Init /\ [][NextSubmit]_vars

\* runs one after the other on the same file, from a file that lacks one or
\* three months of the window and a portal that lists them, or all but one
InitRuns ==
    /\ Init
    /\ file # <<>>
    /\ portal.table

RunScenarios == {<<Date(2020, 2, 12), 2020, FALSE>>}

NextRuns ==
    \/ \E sc \in RunScenarios, id \in LoginIds, pw \in Passwords, rd \in BOOLEAN :
          StartRun(sc, id, pw, rd)
    \/ \E sc \in RunScenarios, id \in LoginIds, pw \in Passwords, rd \in BOOLEAN :
          StartNextRun(sc, id, pw, rd)
    \/ RunStep

SpecRuns == InitRuns /\ [][NextRuns]_vars

\* the window generators alone, applied to every date and UI year of the
\* bounds in both modes
WindowDates ==
    {Date(y, m, d) : y \in WindowFirstYear..WindowLastYear, m \in 1..12,
                     d \in 1..WindowLastDay}
WindowUiYears == (WindowFirstYear - 1)..(WindowLastYear + 1)

InitWindow ==
    /\ file = <<>>
    /\ portal = [table |-> FALSE, rows |-> <<>>]
    /\ today \in WindowDates
    /\ ui_target_year \in WindowUiYears
    /\ full_scan \in BOOLEAN
    /\ InitRest

\* step 1 of run_main_logic: the required months and their years
GenerateWindow ==
    /\ rpc = "idle"
    /\ rpc' = "window"
    /\ required' = IF ~full_scan THEN generate_target_months(today, ui_target_year)
                   ELSE generate_target_months_for_full_scan(today)
    /\ years_to_run' = TargetYearsToRun(required')
    /\ UNCHANGED <<persistv, runs, inputv, existing_data, existing_dates, delta, file0,
                   prev, years_left, all_new, http, calls, save_call, result, pc, callv,
                   session, requests, nresp>>

SpecWindow == InitWindow /\ [][GenerateWindow]_vars

\* ------------------------------------------- store and aggregator on their own
\* every sequence of at most n elements of S
SeqsUpTo(S, n) == UNION {[1..k -> S] : k \in 0..n}

\* the cells a row of a file found on disk may hold
DatasetCells ==
    <<IntLit(1000), DecLit(15), DayLit(15), CommaLit(1200), Text("N/A"), Text(""),
      Text("abc")>>

\* a row of a file found on disk: its label and two neighbouring kinds of cell
DatasetRow(label, k) ==
    LET c == DatasetCells[k]
        d == DatasetCells[(k % Len(DatasetCells)) + 1]
    IN  [date |-> label, total_pay |-> c, net_pay |-> d, overtime |-> c,
         leave_time |-> d, used_days |-> d, remaining_days |-> c]

\* the labels of such rows: a list label, one whose numbers are not padded, one
\* shorter than a month key, and an empty one
DatasetRowLabels ==
    {Label(2020, 3),
     <<"Rei", "Wa", "2", "Nen", "3", "Gatsu", "Do", "Kyu", "Yo">>,
     <<"Rei", "Wa", "0", "2">>,
     <<>>}

DatasetFiles ==
    SeqsUpTo({DatasetRow(label, k) : label \in DatasetRowLabels,
                                     k \in 1..Len(DatasetCells)}, MaxFileRows)

\* a record as parse_payslip_detail and load_existing_csv build it
Record(label, values) ==
    [date |-> label, total_pay |-> values[1], net_pay |-> values[2],
     overtime |-> values[3], leave_time |-> values[4], used_days |-> values[5],
     remaining_days |-> values[6]]

\* the values of a page with every label: an int where the page shows no
\* decimal point
TypedValues == <<IntV(1000), IntV(800), FloatV(15), FloatV(20), FloatV(10), IntV(9)>>
\* the values of a page without the four time and leave labels
SentinelValues == <<IntV(2000), IntV(1600), NA, NA, NA, NA>>
\* the values of a page that shows a decimal point in the total pay
FloatPayValues == <<FloatV(10005), IntV(800), IntV(3), FloatV(0), FloatV(5), FloatV(100)>>
\* the values of a page whose texts do not parse, kept as raw text
TextValues == <<StrV("abc"), NA, StrV("abc"), StrV("abc"), NA, FloatV(100)>>

\* the label of a bonus row of the same month
BonusLabel(year, month) == ReiwaPrefix(year, month) \o <<"Sho", "Yo">>

\* a label that names a thirteenth month
BadMonthLabel == ReiwaPrefix(2020, 1) \o <<"3", "Gatsu">>

\* the records the datasets are made of
Records ==
    {Record(Label(2019, 12), TypedValues),
     Record(Label(2019, 12), FloatPayValues),
     Record(Label(2020, 3), TypedValues),
     Record(Label(2020, 3), SentinelValues),
     Record(Label(2020, 4), TypedValues),
     Record(BonusLabel(2020, 4), SentinelValues),
     Record(Label(2021, 3), TextValues),
     Record(Label(2021, 4), TypedValues),
     Record(<<"x">>, TypedValues),
     Record(BadMonthLabel, TypedValues)}

Datasets == SeqsUpTo(Records, MaxRecords)

\* the years the summaries are asked for
SummaryYears == {2019, 2020}

\* two records of March and April of the fifth year of the era, with 10.0 and
\* 5.0 hours of overtime
NendoExample ==
    <<Record(Label(2023, 3), <<IntV(1000), IntV(800), FloatV(100), NA, NA, NA>>),
      Record(Label(2023, 4), <<IntV(1000), IntV(800), FloatV(50), NA, NA, NA>>)>>

\* the store is given either a file found on disk or a dataset to save
InitDataset ==
    /\ portal = [table |-> FALSE, rows |-> <<>>]
    /\ today = Date(2020, 2, 12)
    /\ full_scan = FALSE
    /\ \/ file \in DatasetFiles /\ all_new = <<>> /\ ui_target_year = 2020
       \/ file = <<>> /\ all_new \in Datasets /\ ui_target_year \in SummaryYears
       \/ file = <<>> /\ all_new = NendoExample /\ ui_target_year = 2023
    /\ env = [MY_LOGIN_ID |-> NoCredential, MY_PASSWORD |-> NoCredential]
    /\ runs = 0
    /\ prev = NoPrev
    /\ rpc = "idle"
    /\ login_id = "" /\ password = "" /\ read_ok = TRUE
    /\ required = {} /\ years_to_run = {} /\ years_left = <<>>
    /\ existing_data = <<>> /\ existing_dates = {} /\ delta = {}
    /\ http = [success |-> TRUE, message |-> ""]
    /\ result = NoResult
    /\ save_call = NoSaveCall
    /\ file0 = file
    /\ calls = <<>>
    /\ pc = "idle"
    /\ target_year = 0 /\ target_payslips = <<>> /\ idx = 1 /\ new_list = <<>>
    /\ form = 0 /\ cur_url = ""
    /\ session = "none"
    /\ requests = <<>>
    /\ nresp = 0

\* what the store and the aggregator leave alone
restv == <<env, portal, runs, prev, today, ui_target_year, full_scan, login_id, password,
           required, years_to_run, years_left, delta, all_new, http, file0, calls, pc,
           callv, session, requests, nresp>>

\* save_to_csv applied to the dataset given
SaveGiven(outcome) ==
    /\ rpc = "idle"
    /\ rpc' = "saved"
    /\ LET saved == save_to_csv(all_new, file, outcome)
       IN  /\ file' = saved.rows
           /\ save_call' = [called |-> TRUE, outcome |-> outcome, path |-> saved.path]
    /\ UNCHANGED <<existing_data, existing_dates, read_ok, result, restv>>

\* load_existing_csv applied to the file, as found or as saved
LoadFile(ok) ==
    /\ rpc \in {"idle", "saved"}
    /\ rpc' = IF rpc = "idle" THEN "loaded" ELSE "reloaded"
    /\ read_ok' = ok
    /\ existing_data' = load_existing_csv(file, ok).data
    /\ existing_dates' = load_existing_csv(file, ok).dates
    /\ UNCHANGED <<file, save_call, result, restv>>

\* save_to_csv applied to the dataset loaded
SaveLoaded(outcome) ==
    /\ rpc \in {"loaded", "reloaded"}
    /\ rpc' = IF rpc = "loaded" THEN "resaved" ELSE "saved_again"
    /\ LET saved == save_to_csv(existing_data, file, outcome)
       IN  /\ file' = saved.rows
           /\ save_call' = [called |-> TRUE, outcome |-> outcome, path |-> saved.path]
    /\ UNCHANGED <<existing_data, existing_dates, read_ok, result, restv>>

\* calculate_rekigun_summary applied to the dataset given
CalendarYearSummary ==
    /\ rpc = "idle"
    /\ rpc' = "rekigun"
    /\ result' = [NoResult EXCEPT
                     !.data.summary_data_rekigun = calculate_rekigun_summary(all_new)]
    /\ UNCHANGED <<file, existing_data, existing_dates, read_ok, save_call, restv>>

\* steps 7 to 9 of run_main_logic applied to the dataset given
Summarise ==
    /\ rpc = "idle"
    /\ rpc' = "summed"
    /\ result' = SuccessResult(all_new, {}, ui_target_year)
    /\ UNCHANGED <<file, existing_data, existing_dates, read_ok, save_call, restv>>

NextDataset ==
    \/ \E outcome \in SaveOutcomes : SaveGiven(outcome)
    \/ \E ok \in BOOLEAN : LoadFile(ok)
    \/ \E outcome \in SaveOutcomes : SaveLoaded(outcome)
    \/ CalendarYearSummary
    \/ Summarise

SpecDataset == InitDataset /\ [][NextDataset]_vars

\* ------------------------------------------------- detail parser on its own
\* the <dd> texts of a detail page: an integer, a decimal, another text
DetailDds == {IntLit(1200), DecLit(15), Text("abc")}

\* the <dt> texts of a detail page: the labels looked for, the two day counts
\* in the spelling of the record keys, and a label of no interest
DetailDts == DetailLabels \cup {"other"}

\* the detail pages the parser is applied to
DetailPages ==
    {[html_div |-> h, dls |-> d] :
        h \in BOOLEAN,
        d \in SeqsUpTo({[dt |-> t, dd |-> v] : t \in DetailDts, v \in DetailDds}, MaxDls)}

\* the portal has served a detail page
InitDetail ==
    /\ file = <<>>
    /\ portal \in DetailPages
    /\ today = Date(2020, 2, 12)
    /\ ui_target_year = 2020
    /\ full_scan = FALSE
    /\ InitRest

\* parse_payslip_detail applied to the page, and the row made of what it
\* returned
ParseDetail ==
    /\ pc = "idle"
    /\ pc' = "parsed"
    /\ new_list' = <<DataRow(Label(2020, 1), parse_payslip_detail(portal))>>
    /\ UNCHANGED <<persistv, runs, inputv, loadv, loopv, save_call, result, target_year,
                   target_payslips, idx, form, cur_url, session, requests, nresp>>

SpecDetail == InitDetail /\ [][ParseDetail]_vars

\* ------------------------------------------------------------------ claims
\* the requests of the k-th run_automation call of the run
RequestsOf(k) == SelectSeq(requests, LAMBDA r : r.call = k)

\* the month keys of the rows of a file, as the first 8 characters of the label
FileKeys(rows) == {SubSeq(rows[i].date, 1, 8) : i \in {j \in 1..Len(rows) : Len(rows[j].date) >= 8}}

\* C1: in every run delta is exactly required minus the month keys loaded from
\* the dataset file, a detail POST is sent only for a list row whose first 8
\* characters are in delta, and no month whose key was loaded is fetched.
C1_FetchOnlyDelta ==
    rpc # "idle" =>
        /\ existing_dates = (IF read_ok THEN FileKeys(file0) ELSE {})
        /\ delta = required \ existing_dates
        /\ \A i \in 1..Len(requests) :
              requests[i].kind = "detail" =>
                 /\ Len(requests[i].target) >= 8
                 /\ SubSeq(requests[i].target, 1, 8) \in delta
                 /\ SubSeq(requests[i].target, 1, 8) \notin existing_dates
                 /\ \E j \in 1..Len(portal.rows) : portal.rows[j].date = requests[i].target

\* a detail POST was sent in a run whose list also has a row already loaded
C1_Witness ==
    /\ \E i \in 1..Len(requests) : requests[i].kind = "detail"
    /\ \E j \in 1..Len(target_payslips) :
          SubSeq(target_payslips[j].date, 1, 8) \in existing_dates
    /\ required \cap existing_dates # {}

\* C2: when a per-year call returns success=false the run returns
\* success=false with that call's message, no later year is invoked and no
\* further request is sent, the records of earlier years are not merged and
\* the dataset file is as it was before the run.
C2_FailureAbortsRun ==
    \A k \in 1..Len(calls) :
        ~calls[k].success =>
            /\ k = Len(calls)
            /\ rpc \in {"finish", "done"}
            /\ pc = "idle"
            /\ \A i \in 1..Len(requests) : requests[i].call <= k
            /\ file = file0
            /\ rpc = "done" =>
                  /\ result = ErrorResult(calls[k].message)
                  /\ existing_data = load_existing_csv(file0, read_ok).data

\* the second year failed after the first year had fetched a record
C2_Witness ==
    /\ rpc = "done"
    /\ Len(calls) = 2
    /\ calls[1].success /\ calls[1].records # <<>>
    /\ ~calls[2].success
    /\ ~result.success

\* C3 (as claimed): when the credential write fails after all per-year calls
\* succeeded, the run returns success=true with the otherwise-successful
\* result: new records merged and persisted, dataset path and summaries
\* present, and the warning added.
C3_WarningKeepsResult ==
    (rpc = "done" /\ result.warning # "") =>
        /\ result.success
        /\ {"warning", "csv_path", "summary_data_rekigun", "summary_nendo_overtime"}
              \subseteq result.keys
        /\ KeysOf(all_new) \subseteq FileKeys(file)

\* C4: after a run that merged and saved a record for every month of its
\* delta, the next run with the same required set, whose load succeeds, loads
\* existing' = existing + delta, computes an empty delta and sends no request.
C4_NextRunHasNothingToFetch ==
    (rpc # "idle" /\ prev.merged_all /\ required = prev.required /\ read_ok) =>
        /\ existing_dates = prev.existing \cup prev.delta
        /\ delta = {}
        /\ requests = <<>> /\ calls = <<>>
        /\ rpc = "done" /\ result.success

\* a second run after a run that fetched the months it lacked
C4_Witness ==
    /\ runs = 2 /\ prev.merged_all /\ prev.delta # {}
    /\ required = prev.required /\ read_ok
    /\ delta = {} /\ requests = <<>>

\* C5: a login POST whose response is not at the menu page ends the call with
\* success=false and no record, and is the last request sent (one login POST,
\* no list, detail, go-back or logout POST); the message is the invalid
\* credentials one for the error redirect, the unexpected page one otherwise.
C5_LoginFailureIsHard ==
    \A i \in 1..Len(requests) :
        (requests[i].kind = "login" /\ requests[i].out = "ok"
            /\ requests[i].url # MENU_PAGE_URL) =>
            /\ i = Len(requests)
            /\ Len(SelectSeq(RequestsOf(requests[i].call), LAMBDA r : r.kind = "login")) = 1
            /\ Len(calls) = requests[i].call
            /\ ~calls[Len(calls)].success
            /\ calls[Len(calls)].records = <<>>
            /\ calls[Len(calls)].message =
                  (IF requests[i].url = LOGIN_ERR_URL THEN "invalid_credentials"
                   ELSE "unexpected_page")

\* a login that landed on the error redirect
C5_Witness ==
    /\ Len(requests) > 0
    /\ requests[Len(requests)].kind = "login"
    /\ requests[Len(requests)].url = LOGIN_ERR_URL
    /\ Len(calls) > 0 /\ calls[Len(calls)].message = "invalid_credentials"

\* C6: a go-back POST whose response is not at the list page ends the call at
\* once with success=false and an empty record list, the records appended so
\* far (the row just parsed among them) being dropped, and no request follows.
C6_GoBackFailureIsHard ==
    \A i \in 1..Len(requests) :
        (requests[i].kind = "back" /\ requests[i].out = "ok"
            /\ requests[i].url # LIST_PAGE_URL) =>
            /\ i = Len(requests)
            /\ Len(calls) = requests[i].call
            /\ ~calls[Len(calls)].success
            /\ calls[Len(calls)].records = <<>>
            /\ calls[Len(calls)].message = "go_back_failed"
            /\ Len(new_list) >= 1
            /\ new_list[Len(new_list)].date = requests[i].target
            /\ \A n \in 1..Len(new_list) : \A m \in 1..Len(all_new) :
                  all_new[m].date # new_list[n].date

\* a go-back failure on the second fetched row of a call
C6_Witness ==
    /\ Len(requests) > 0
    /\ requests[Len(requests)].kind = "back"
    /\ requests[Len(requests)].out = "ok"
    /\ requests[Len(requests)].url # LIST_PAGE_URL
    /\ Len(new_list) = 2
    /\ Len(calls) > 0 /\ calls[Len(calls)].records = <<>>

\* a detail POST whose response is not at the detail page
SoftSkipped(r) == r.kind = "detail" /\ r.out = "ok" /\ r.url # DETAIL_PAGE_URL

ReachedListNoHardFailure(rs) ==
    /\ \E i \in 1..Len(rs) : rs[i].kind = "list" /\ rs[i].out = "ok"
                              /\ rs[i].url = LIST_PAGE_URL
    /\ \A i \in 1..Len(rs) :
          rs[i].kind # "logout" =>
             /\ rs[i].out = "ok"
             /\ rs[i].kind = "back" => rs[i].url = LIST_PAGE_URL

\* the labels of the rows whose detail POST landed on the detail page
FetchedLabels(rs) ==
    LET ok == SelectSeq(rs, LAMBDA r : r.kind = "detail" /\ r.out = "ok"
                                       /\ r.url = DETAIL_PAGE_URL)
    IN  [n \in 1..Len(ok) |-> ok[n].target]

\* C8: a returned call that reached the list page and had no hard failure
\* sent the logout POST as its last request, also with no table or no
\* matching row, and returned success=true with every record collected,
\* whatever the logout POST came to.
C8_LogoutIsBestEffort ==
    \A k \in 1..Len(calls) :
        LET rs == RequestsOf(k)
        IN  ReachedListNoHardFailure(rs) =>
               /\ rs[Len(rs)].kind = "logout"
               /\ Len(SelectSeq(rs, LAMBDA r : r.kind = "logout")) = 1
               /\ calls[k].success
               /\ [n \in 1..Len(calls[k].records) |-> calls[k].records[n].date]
                     = FetchedLabels(rs)

\* a call whose logout POST raised and that returned its records
C8_Witness ==
    \E k \in 1..Len(calls) :
        LET rs == RequestsOf(k)
        IN  /\ Len(rs) > 0
            /\ rs[Len(rs)].kind = "logout" /\ rs[Len(rs)].out # "ok"
            /\ calls[k].success /\ calls[k].records # <<>>

\* C9: a call that opened a session (every call that sent a request) has
\* closed it when it returns, whatever the exit path; no session is open
\* while no call is running.
C9_SessionClosedOnReturn ==
    /\ \A k \in 1..Len(calls) :
          /\ calls[k].session # "open"
          /\ (calls[k].message # "skipped" \/ RequestsOf(k) # <<>>) =>
                calls[k].session = "closed"
    /\ pc = "idle" => session # "open"
    /\ pc # "idle" => session = "open"

\* a call left by an unexpected exception after a record was fetched
C9_Witness ==
    /\ Len(calls) > 0
    /\ calls[Len(calls)].message = "unexpected_error"
    /\ calls[Len(calls)].session = "closed"
    /\ new_list # <<>>

\* the year of a month key: its era year plus 2018
YearOfKey(key) == ParseInt(SubSeq(key, 3, 4)).v + 2018

\* C10: a call for a year that has no month in delta returns success=true
\* with no record and the skipped message, opens no session and sends no
\* request.
C10_YearWithoutDeltaIsNoOp ==
    \A k \in 1..Len(calls) :
        (\A key \in delta : YearOfKey(key) # calls[k].year) =>
            /\ calls[k].success
            /\ calls[k].message = "skipped"
            /\ calls[k].records = <<>>
            /\ calls[k].session = "none"
            /\ RequestsOf(k) = <<>>

\* a year of required with no month in delta was called and skipped
C10_Witness ==
    /\ Len(calls) > 0
    /\ calls[1].message = "skipped"
    /\ calls[1].year \in years_to_run
    /\ delta # {}

\* the records of the file a run started from, as the run loaded them
LoadedAtStart == load_existing_csv(file0, read_ok).data

\* C11: with an empty delta (an empty required set included) the run makes no
\* per-year call, sends no request, opens no session, leaves the credential
\* store and the dataset file as they were, and returns success=true with the
\* summaries computed over the data it loaded.
C11_EmptyDeltaOnlyAggregates ==
    (rpc # "idle" /\ delta = {}) =>
        /\ rpc = "done"
        /\ calls = <<>> /\ requests = <<>> /\ session = "none"
        /\ env = [MY_LOGIN_ID |-> NoCredential, MY_PASSWORD |-> NoCredential]
        /\ file = file0
        /\ existing_data = LoadedAtStart
        /\ result.success /\ result.warning = "" /\ result.error = ""
        /\ {"final_data_ui", "summary_data_rekigun", "summary_nendo_overtime"}
              \subseteq result.keys
        /\ result.data.final_data_ui =
              SortedByKey(SelectSeq(LoadedAtStart,
                  LAMBDA item : Contains(item.date, ReiwaYearStr(ui_target_year - 2018))))
        /\ result.data.summary_data_rekigun =
              SummaryDataRekigun(result.data.final_data_ui)
        /\ result.data.summary_nendo_overtime =
              calculate_nendo_overtime(LoadedAtStart, ui_target_year)

\* a run whose required months are all in the file, with records of the UI's
\* year to summarise
C11_Witness ==
    /\ rpc = "done" /\ delta = {} /\ required # {}
    /\ result.success
    /\ result.data.final_data_ui # <<>>
    /\ Tenths(Get(result.data.summary_data_rekigun, "total_pay")) > 0

FetchedSomething ==
    \E i \in 1..Len(requests) :
        /\ requests[i].kind = "detail" /\ requests[i].out = "ok"
        /\ requests[i].url = DETAIL_PAGE_URL

\* the two credential entries hold encrypt's output for the raw credentials
CredentialsWritten ==
    /\ env.MY_LOGIN_ID = [from_encrypt |-> TRUE, text |-> login_id]
    /\ env.MY_PASSWORD = [from_encrypt |-> TRUE, text |-> password]

\* C13 (as claimed): after any run that performed at least one successful
\* network fetch, the credentials are passed through encrypt and written to
\* the two entries of the credential store (the store write not failing).
C13_AnyFetchWritesCredentials ==
    (rpc = "done" /\ FetchedSomething /\ result.warning = "") => CredentialsWritten

\* C13 (amended): after a run with a non-empty delta whose per-year calls all
\* returned success, and whose store write did not raise, the two entries
\* hold encrypt's output for the raw credentials; a run in which a per-year
\* call failed, or that made no call, leaves the store as it was, even when
\* an earlier call of the run fetched records.
C13_CredentialsWrittenAfterAllYearsSucceed ==
    rpc = "done" =>
        /\ (calls # <<>> /\ (\A k \in 1..Len(calls) : calls[k].success)
               /\ result.warning = "") => CredentialsWritten
        /\ (calls = <<>> \/ (\E k \in 1..Len(calls) : ~calls[k].success)) =>
              env = [MY_LOGIN_ID |-> NoCredential, MY_PASSWORD |-> NoCredential]

\* a run of two successful years that fetched records and wrote the store
C13_Witness ==
    /\ rpc = "done" /\ Len(calls) = 2
    /\ \A k \in 1..Len(calls) : calls[k].success
    /\ FetchedSomething
    /\ CredentialsWritten

\* the sessions that are open: the running call's and any left open by a
\* call that returned
OpenSessions ==
    (IF session = "open" THEN 1 ELSE 0)
    + Cardinality({k \in 1..Len(calls) : calls[k].session = "open"})

\* C14: the per-year calls of a run are made one at a time in strictly
\* ascending year order, each for a year of required; every request of a
\* call precedes every request of the next call; while a call runs, the
\* calls before it have returned with their session closed, and never is
\* more than one session open.
C14_YearsOneAtATimeAscending ==
    /\ \A k \in 1..Len(calls) : calls[k].year \in years_to_run
    /\ \A k \in 1..(Len(calls) - 1) : calls[k].year < calls[k + 1].year
    /\ \A i \in 1..(Len(requests) - 1) : requests[i].call <= requests[i + 1].call
    /\ \A i \in 1..Len(requests) : requests[i].call <= Len(calls) + 1
    /\ pc # "idle" =>
          /\ session = "open"
          /\ \A k \in 1..Len(calls) :
                calls[k].year < target_year /\ calls[k].session # "open"
    /\ OpenSessions <= 1

\* the second year's session is open after the first year's call fetched a
\* record and returned
C14_Witness ==
    /\ pc = "rows" /\ session = "open"
    /\ Len(calls) = 1 /\ calls[1].session = "closed" /\ calls[1].records # <<>>
    /\ calls[1].year < target_year
    /\ RequestsOf(2) # <<>>

\* Months counted from year 0: the index of a month and the month of an index.
MonthIndex(year, month) == 12 * year + (month - 1)
KeyOfIndex(i) == ReiwaPrefix(i \div 12, (i % 12) + 1)
KeysBetween(first, last) == {KeyOfIndex(i) : i \in first..last}

\* the upper bound the day-of-month rule gives for a date: the month of the
\* date, or the month before it when the day is before the 12th
UpperBound(d) == MonthIndex(d.year, d.month) - (IF d.day < 12 THEN 1 ELSE 0)

\* the first month of the rolling window and of the full scan
RollingStart(d) == MonthIndex(d.year - 1, 3)
FullScanStart == MonthIndex(2019, 1)
WindowStart == IF full_scan THEN FullScanStart ELSE RollingStart(today)

\* the window of the state is the rolling one or the full scan one
DayRuleApplies == rpc = "window" /\ (full_scan \/ ui_target_year = today.year)

\* C15: for every date, in the rolling window (uiYear the current year) and
\* in the full scan, the last month of the window is the month of the date
\* when its day is the 12th or later and the month before it otherwise,
\* which for January is December of the year before.
C15_UpperBoundFollowsDayRule ==
    DayRuleApplies =>
        /\ \A i \in (UpperBound(today) + 1)..(UpperBound(today) + 24) :
              KeyOfIndex(i) \notin required
        /\ UpperBound(today) >= WindowStart => KeyOfIndex(UpperBound(today)) \in required
        /\ (today.day >= 12 /\ MonthIndex(today.year, today.month) >= WindowStart) =>
              ReiwaPrefix(today.year, today.month) \in required
        /\ today.day < 12 => ReiwaPrefix(today.year, today.month) \notin required
        /\ (today.day < 12 /\ today.month = 1
               /\ MonthIndex(today.year - 1, 12) >= WindowStart) =>
              ReiwaPrefix(today.year - 1, 12) \in required
        /\ (today.day < 12 /\ today.month > 1
               /\ MonthIndex(today.year, today.month - 1) >= WindowStart) =>
              ReiwaPrefix(today.year, today.month - 1) \in required

\* a rolling window computed on a day before the 12th of January
C15_Witness ==
    /\ DayRuleApplies /\ ~full_scan
    /\ today.month = 1 /\ today.day < 12
    /\ ReiwaPrefix(today.year - 1, 12) \in required
    /\ ReiwaPrefix(today.year, 1) \notin required

\* C16: for every date, the rolling window holds exactly one key for every
\* month from March of the prior year through the upper bound and no other
\* key; March of the prior year is in it whatever the day is.
C16_RollingWindowIsTheRange ==
    (rpc = "window" /\ ~full_scan /\ ui_target_year = today.year) =>
        /\ required = KeysBetween(RollingStart(today), UpperBound(today))
        /\ Cardinality(required) = UpperBound(today) - RollingStart(today) + 1
        /\ ReiwaPrefix(today.year - 1, 3) \in required
        /\ ReiwaPrefix(today.year - 1, 2) \notin required

\* a rolling window that runs over the turn of the year
C16_Witness ==
    /\ rpc = "window" /\ ~full_scan /\ ui_target_year = today.year
    /\ today.day < 12 /\ today.month = 6
    /\ ReiwaPrefix(today.year - 1, 12) \in required
    /\ ReiwaPrefix(today.year, 1) \in required
    /\ ReiwaPrefix(today.year, 5) \in required

\* C17 (as claimed): for every date the rolling window has 13 or 14 keys.
C17_ThirteenOrFourteenKeys ==
    (rpc = "window" /\ ~full_scan /\ ui_target_year = today.year) =>
        Cardinality(required) \in {13, 14}

\* the months of the current year up to the upper bound
MonthsOfCurrentYear(d) == IF d.day >= 12 THEN d.month ELSE d.month - 1

\* C17 (amended): for every date the rolling window has 10 keys (March to
\* December of the prior year) plus one for every month of the current year
\* up to the upper bound: between 10 and 22 keys, 13 or 14 only when the
\* upper bound is March or April of the current year.
C17_TenToTwentyTwoKeys ==
    (rpc = "window" /\ ~full_scan /\ ui_target_year = today.year) =>
        /\ Cardinality(required) = 10 + MonthsOfCurrentYear(today)
        /\ Cardinality(required) \in 10..22
        /\ Cardinality(required) \in {13, 14} <=> MonthsOfCurrentYear(today) \in {3, 4}

\* a rolling window of 22 keys, computed late in December
C17_Witness ==
    /\ rpc = "window" /\ ~full_scan /\ ui_target_year = today.year
    /\ today.month = 12 /\ today.day >= 12
    /\ Cardinality(required) = 22

\* C18: for every date and every uiYear other than the year of the date, the
\* window is exactly the 12 keys January to December of uiYear, whatever the
\* day of the month is.
C18_OtherYearIsItsTwelveMonths ==
    (rpc = "window" /\ ~full_scan /\ ui_target_year # today.year) =>
        /\ required = {ReiwaPrefix(ui_target_year, m) : m \in 1..12}
        /\ Cardinality(required) = 12

\* the window of a past year computed early in a month
C18_Witness ==
    /\ rpc = "window" /\ ~full_scan /\ ui_target_year = today.year - 1
    /\ today.day < 12
    /\ ReiwaPrefix(ui_target_year, 12) \in required
    /\ ReiwaPrefix(ui_target_year, 1) \in required

\* C19: for every date the full scan window is the set of the keys of all
\* months from January 2019 through the upper bound; January 2019 is in it
\* whenever the upper bound is not before it, and the window is empty only
\* when the upper bound is before January 2019.
C19_FullScanFromJanuary2019 ==
    (rpc = "window" /\ full_scan) =>
        /\ required = KeysBetween(FullScanStart, UpperBound(today))
        /\ Cardinality(required) =
              (IF UpperBound(today) < FullScanStart THEN 0
               ELSE UpperBound(today) - FullScanStart + 1)
        /\ UpperBound(today) >= FullScanStart => ReiwaPrefix(2019, 1) \in required
        /\ required = {} <=> UpperBound(today) < FullScanStart

\* a full scan of more than two years
C19_Witness ==
    /\ rpc = "window" /\ full_scan
    /\ today.year = 2021 /\ today.month = 3 /\ today.day >= 12
    /\ ReiwaPrefix(2019, 1) \in required
    /\ ReiwaPrefix(2021, 3) \in required
    /\ Cardinality(required) = 27

\* the start and the end the generators compute for the inputs of the run
ComputedStart ==
    IF full_scan THEN FullScanStart
    ELSE IF ui_target_year = today.year THEN RollingStart(today)
    ELSE MonthIndex(ui_target_year, 1)
ComputedEnd ==
    IF full_scan \/ ui_target_year = today.year THEN UpperBound(today)
    ELSE MonthIndex(ui_target_year, 12)

\* the run made no per-year call and returned success
ToleratedEmptyWindow ==
    /\ years_to_run = {} /\ delta = {}
    /\ rpc = "done" /\ calls = <<>> /\ requests = <<>>
    /\ result.success /\ result.error = ""

\* C20 (as claimed): the required set is empty when the computed start is
\* after the computed end, notably for a uiYear in the future, and the run
\* then makes no per-year call and does not fail.
C20_FutureYearGivesEmptyWindow ==
    (rpc # "idle" /\ (ComputedStart > ComputedEnd
                        \/ (~full_scan /\ ui_target_year > today.year))) =>
        required = {} /\ ToleratedEmptyWindow

\* C20 (amended): the required set is empty exactly when the computed start
\* is after the computed end, which no uiYear brings about: a uiYear in the
\* future gives the 12 keys of that year; a run with an empty required set
\* makes no per-year call and returns success.
C20_EmptyWindowOnlyWhenStartAfterEnd ==
    rpc # "idle" =>
        /\ required = {} <=> ComputedStart > ComputedEnd
        /\ required = {} => ToleratedEmptyWindow
        /\ (~full_scan /\ ui_target_year # today.year) =>
              /\ ComputedStart <= ComputedEnd
              /\ Cardinality(required) = 12

\* a full scan before 12 January 2019: nothing is required
C20_Witness ==
    /\ rpc = "done" /\ full_scan
    /\ ComputedStart > ComputedEnd
    /\ required = {}
    /\ result.success

\* the Gregorian years that have a month key in a set of keys
YearsWithKeyIn(keys) ==
    {y \in (WindowFirstYear - 2)..(WindowLastYear + 2) :
        \E m \in 1..12 : ReiwaPrefix(y, m) \in keys}

\* C21: yearsToRun is exactly the set of the Gregorian years of the month
\* keys of required, whatever the file holds; the years of delta are among
\* them, and a year of required with no month in delta is still one of them.
C21_YearsComeFromRequired ==
    rpc # "idle" =>
        /\ years_to_run = YearsWithKeyIn(required)
        /\ years_to_run = {YearOfKey(key) : key \in required}
        /\ YearsWithKeyIn(delta) \subseteq years_to_run
        /\ rpc = "done" /\ http.success /\ delta # {} =>
              {calls[k].year : k \in 1..Len(calls)} = years_to_run

\* a run that has a year of required without any month in delta, and called
\* it all the same
C21_Witness ==
    /\ rpc = "done" /\ delta # {}
    /\ \E y \in years_to_run :
          /\ y \notin YearsWithKeyIn(delta)
          /\ \E k \in 1..Len(calls) : calls[k].year = y


\* C22: load_existing_csv always returns a dataset and a key set: both are
\* empty when there is no file and when reading or parsing it raised;
\* otherwise the dataset has one record per row, in the file's order and with
\* the row's label, and the key set holds exactly the first eight characters
\* of the label of every row that has them.
C22_LoadNeverFails ==
    rpc \in {"loaded", "reloaded"} =>
        IF Len(file) = 0 \/ ~read_ok
        THEN existing_data = <<>> /\ existing_dates = {}
        ELSE /\ Len(existing_data) = Len(file)
             /\ \A i \in 1..Len(file) : existing_data[i].date = file[i].date
             /\ existing_dates = FileKeys(file)

C22_Witness ==
    /\ rpc = "loaded" /\ read_ok /\ Len(file) = 2
    /\ Len(file[1].date) < 8
    /\ Len(file[2].date) = 9
    /\ existing_dates = {SubSeq(file[2].date, 1, 8)}


\* the cells and the values of the two integer columns and of the four
\* decimal columns
IntCells(row) == <<row.total_pay, row.net_pay>>
DecCells(row) == <<row.overtime, row.leave_time, row.used_days, row.remaining_days>>

\* C23: in a loaded record each of the two integer fields is an int, which is
\* 0 and not the sentinel when the cell is not an integer literal; each of the
\* four decimal fields is a float or the sentinel, which it is, and not 0,
\* when the cell is empty, "N/A" or anything else that is not a number.
C23_IntegerColumnsDefaultToZero ==
    rpc \in {"loaded", "reloaded"} /\ read_ok =>
        \A i \in 1..Len(file) :
            /\ \A c \in 1..2 :
                  LET cell == IntCells(file[i])[c]
                      value == IntCells(existing_data[i])[c]
                  IN  /\ value.t = "int"
                      /\ cell.lit \in {"int", "comma"} => value.n = cell.n
                      /\ cell.lit \notin {"int", "comma"} => value = IntV(0) /\ value # NA
            /\ \A c \in 1..4 :
                  LET cell == DecCells(file[i])[c]
                      value == DecCells(existing_data[i])[c]
                  IN  /\ value.t = "float" \/ value = NA
                      /\ cell.lit \in {"int", "dec", "day"} =>
                            /\ value.t = "float"
                            /\ value.n = IF cell.lit = "int" THEN 10 * cell.n ELSE cell.n
                      /\ cell.lit \notin {"int", "dec", "day"} =>
                            value = NA /\ value # FloatV(0) /\ value # IntV(0)

C23_Witness ==
    /\ rpc = "loaded" /\ read_ok
    /\ \E i \in 1..Len(file) :
          /\ file[i].total_pay = Text("") /\ existing_data[i].total_pay = IntV(0)
          /\ file[i].net_pay = Text("abc") /\ existing_data[i].net_pay = IntV(0)
          /\ file[i].leave_time = Text("abc") /\ existing_data[i].leave_time = NA
          /\ file[i].overtime = Text("") /\ existing_data[i].overtime = NA
    /\ \E i \in 1..Len(file) :
          /\ file[i].total_pay = Text("N/A") /\ existing_data[i].total_pay = IntV(0)
          /\ file[i].overtime = Text("N/A") /\ existing_data[i].overtime = NA


\* the position the record at position k of a dataset has in canonical order:
\* after every record with a smaller key and after the records with the same
\* key that come before it
CanonicalPosition(data_list, k) ==
    Cardinality({j \in 1..Len(data_list) :
                    _sort_key_for_csv(data_list[j]) < _sort_key_for_csv(data_list[k])})
    + Cardinality({j \in 1..k :
                    _sort_key_for_csv(data_list[j]) = _sort_key_for_csv(data_list[k])})

\* the ways a label writes the month m of the year y: the era, the year and
\* the month with or without a leading zero
MonthTexts(y, m) ==
    {<<"Rei", "Wa">> \o yd \o <<"Nen">> \o md \o <<"Gatsu">> :
        yd \in {Digits(y - 2018), Fmt02(y - 2018)}, md \in {Digits(m), Fmt02(m)}}

\* the months a label names
MonthsNamed(label) ==
    {ym \in (2019..2024) \X (1..12) :
        \E t \in MonthTexts(ym[1], ym[2]) : Contains(label, t)}

\* the label's month as year * 12 + month, 0 when the label names none
DecodedMonth(label) ==
    IF MonthsNamed(label) = {} THEN 0
    ELSE LET ym == CHOOSE ym \in MonthsNamed(label) : TRUE
         IN  ym[1] * 12 + ym[2]

\* the dataset a successful save has just written, and the rows it wrote
SavedDataset == IF rpc = "saved" THEN all_new ELSE existing_data
SaveSucceeded ==
    rpc \in {"saved", "resaved", "saved_again"} /\ save_call.path # ""

\* C24: after a successful save the file holds the records of the dataset
\* saved, each at its canonical position: months ascend, a record whose label
\* names no month comes before every record whose label names one, records
\* of the same month keep their input order, and sorting the saved order
\* again changes nothing.
C24_SavedInCanonicalOrder ==
    SaveSucceeded =>
        LET data_list == SavedDataset
            sorted == SortedByKey(data_list)
        IN  /\ Len(file) = Len(data_list)
            /\ \A k \in 1..Len(data_list) :
                  file[CanonicalPosition(data_list, k)] = SaveRow(data_list[k])
            /\ \A i, j \in 1..Len(file) :
                  i < j => DecodedMonth(file[i].date) <= DecodedMonth(file[j].date)
            /\ SortedByKey(sorted) = sorted
            /\ \A k \in 1..Len(sorted) : CanonicalPosition(sorted, k) = k

C24_Witness ==
    /\ rpc = "saved" /\ save_call.path # "" /\ Len(all_new) = 3
    /\ all_new[1].date = Label(2020, 4)
    /\ all_new[2].date = BonusLabel(2020, 4)
    /\ all_new[3].date = BadMonthLabel
    /\ file[1].date = BadMonthLabel
    /\ file[2].date = Label(2020, 4)
    /\ file[3].date = BonusLabel(2020, 4)


\* the six value fields of a record
ValueFields(item) ==
    <<item.total_pay, item.net_pay, item.overtime, item.leave_time, item.used_days,
      item.remaining_days>>

AllNumeric(data_list) ==
    \A k \in 1..Len(data_list) : \A f \in 1..6 : IsNumber(ValueFields(data_list[k])[f])

\* the two pay fields hold ints, the four other fields ints or floats
PayFieldsAreInts(data_list) ==
    \A k \in 1..Len(data_list) : \A f \in 1..2 : ValueFields(data_list[k])[f].t = "int"

\* the same record with numerically equal fields
SameValues(a, b) ==
    /\ a.date = b.date
    /\ \A f \in 1..6 : /\ IsNumber(ValueFields(a)[f]) /\ IsNumber(ValueFields(b)[f])
                       /\ Tenths(ValueFields(a)[f]) = Tenths(ValueFields(b)[f])

\* the dataset given was saved and the file loaded, and, in the last step,
\* saved again
RoundTripDone ==
    /\ rpc \in {"reloaded", "saved_again"}
    /\ save_call.path # "" /\ read_ok
    /\ all_new # <<>>

\* the loaded dataset holds the records of the dataset given, each at its
\* canonical position with numerically equal fields, and the second save
\* writes a file that loads to the same dataset
RoundTripReproduces ==
    /\ Len(existing_data) = Len(all_new)
    /\ \A k \in 1..Len(all_new) :
          SameValues(existing_data[CanonicalPosition(all_new, k)], all_new[k])
    /\ rpc = "saved_again" => load_existing_csv(file, TRUE).data = existing_data

\* C25 as stated: every non-empty dataset whose six value fields are all
\* numeric comes back from save, load, save with the same values.
C25_NumericRoundTrip ==
    RoundTripDone /\ AllNumeric(all_new) => RoundTripReproduces

\* C25, amended: every non-empty dataset whose six value fields are all
\* numeric and whose two pay fields are integers comes back from save, load,
\* save with the same values, in canonical order.
C25_IntegerPayRoundTrip ==
    RoundTripDone /\ AllNumeric(all_new) /\ PayFieldsAreInts(all_new) =>
        RoundTripReproduces

C25_Witness ==
    /\ rpc = "saved_again" /\ save_call.path # "" /\ read_ok
    /\ all_new = <<Record(Label(2020, 4), TypedValues), Record(<<"x">>, TypedValues),
                   Record(Label(2019, 12), TypedValues)>>
    /\ existing_data[1].date = <<"x">>
    /\ existing_data[3].remaining_days = FloatV(90)
    /\ Len(file) = 3


RECURSIVE NumericTotal(_, _)
\* the sum, in tenths, of the numeric values of value field f over a dataset
NumericTotal(data_list, f) ==
    IF Len(data_list) = 0 THEN 0
    ELSE LET value == ValueFields(Head(data_list))[f]
         IN  (IF value.t = "int" THEN 10 * value.n
              ELSE IF value.t = "float" THEN value.n
              ELSE 0)
             + NumericTotal(Tail(data_list), f)

\* the three totals of a summary are the sums of the numeric values of the
\* pay, net pay and overtime fields of the records
TotalsOf(summary, data_list) ==
    /\ IsNumber(Get(summary, "total_pay"))
    /\ IsNumber(Get(summary, "total_net_pay"))
    /\ IsNumber(Get(summary, "total_overtime"))
    /\ Tenths(Get(summary, "total_pay")) = NumericTotal(data_list, 1)
    /\ Tenths(Get(summary, "total_net_pay")) = NumericTotal(data_list, 2)
    /\ Tenths(Get(summary, "total_overtime")) = NumericTotal(data_list, 3)

\* C26: the three totals of the calendar-year summary are the sums of the
\* numeric values of their fields, a sentinel or a text counting 0, both when
\* the aggregator is applied to the records as they are and when the run
\* applies it to the records of the UI's year; for no record at all the
\* totals are 0 and the three latest fields are the sentinel.
C26_TotalsSkipTheSentinel ==
    /\ rpc = "rekigun" =>
          LET summary == result.data.summary_data_rekigun
          IN  /\ TotalsOf(summary, all_new)
              /\ all_new = <<>> =>
                    summary = {<<"total_pay", IntV(0)>>, <<"total_net_pay", IntV(0)>>,
                               <<"total_overtime", FloatV(0)>>,
                               <<"latest_paid_leave_time", NA>>,
                               <<"latest_paid_leave_used_days", NA>>,
                               <<"latest_paid_leave_remaining_days", NA>>}
    /\ rpc = "summed" /\ result.data.final_data_ui # <<>> =>
          TotalsOf(result.data.summary_data_rekigun, result.data.final_data_ui)

C26_Witness ==
    /\ rpc = "rekigun" /\ Len(all_new) = 3
    /\ all_new[1].overtime = NA /\ all_new[2].total_pay = StrV("abc")
    /\ all_new[3].total_pay = IntV(1000) /\ all_new[3].overtime = FloatV(15)
    /\ Get(result.data.summary_data_rekigun, "total_pay") = IntV(3000)
    /\ Get(result.data.summary_data_rekigun, "total_overtime") = FloatV(15)


\* the records of the UI's year among all the records of the run, in the
\* order the run holds them
UiYearRecords ==
    SelectSeq(existing_data \o all_new,
              LAMBDA item : Contains(item.date, ReiwaYearStr(ui_target_year - 2018)))

\* C27: when the result carries a summary and the UI's year has a record, the
\* three latest leave fields are those of the record that is last in
\* canonical order among the records of the UI's year, as that record holds
\* them: the sentinel stays the sentinel.
C27_LatestFieldsAreVerbatim ==
    "summary_data_rekigun" \in result.keys /\ UiYearRecords # <<>> =>
        \E k \in 1..Len(UiYearRecords) :
            LET summary == result.data.summary_data_rekigun
                last == UiYearRecords[k]
            IN  /\ CanonicalPosition(UiYearRecords, k) = Len(UiYearRecords)
                /\ Get(summary, "latest_paid_leave_time") = last.leave_time
                /\ Get(summary, "latest_paid_leave_used_days") = last.used_days
                /\ Get(summary, "latest_paid_leave_remaining_days") = last.remaining_days

C27_Witness ==
    /\ rpc = "summed" /\ Len(UiYearRecords) = 3
    /\ UiYearRecords[1].date = BonusLabel(2020, 4)
    /\ UiYearRecords[1].leave_time = NA /\ UiYearRecords[1].overtime = NA
    /\ UiYearRecords[2].date = Label(2020, 3)
    /\ UiYearRecords[3].date = Label(2020, 3)
    /\ UiYearRecords[2].overtime = FloatV(15) /\ UiYearRecords[3].overtime = FloatV(15)
    /\ Get(result.data.summary_data_rekigun, "latest_paid_leave_time") = NA
    /\ Get(result.data.summary_data_rekigun, "latest_paid_leave_used_days") = NA
    /\ Get(result.data.summary_data_rekigun, "total_overtime") = FloatV(30)


\* the month of a label lies in the fiscal year that starts in April of year
InFiscalYear(label, year) ==
    /\ DecodedMonth(label) >= year * 12 + 4
    /\ DecodedMonth(label) <= (year + 1) * 12 + 3

RECURSIVE FiscalTotal(_, _)
\* the sum, in tenths, of the numeric overtime of the records of a fiscal year
FiscalTotal(data_list, year) ==
    IF Len(data_list) = 0 THEN 0
    ELSE (IF InFiscalYear(Head(data_list).date, year) /\ IsNumber(Head(data_list).overtime)
          THEN Tenths(Head(data_list).overtime)
          ELSE 0)
         + FiscalTotal(Tail(data_list), year)

\* C28: the fiscal-year overtime of the result is a float, the sum of the
\* numeric overtime of the records of the whole dataset whose label names a
\* month from April of the UI's year through March of the next; a label that
\* names no month, a sentinel or a text for the overtime, and every other
\* month add nothing.
C28_FiscalYearIsAprilToMarch ==
    rpc = "summed" =>
        /\ result.data.summary_nendo_overtime.t = "float"
        /\ result.data.summary_nendo_overtime.n = FiscalTotal(all_new, ui_target_year)

C28_Witness ==
    /\ rpc = "summed" /\ ui_target_year = 2019
    /\ all_new = <<Record(Label(2020, 3), SentinelValues),
                   Record(Label(2019, 12), FloatPayValues),
                   Record(Label(2020, 4), TypedValues)>>
    /\ result.data.summary_nendo_overtime = FloatV(30)


\* the fiscal-year overtime of 2023 was computed for the two records of March
\* and April of the fifth year of the era
NendoExampleSummed ==
    rpc = "summed" /\ all_new = NendoExample /\ ui_target_year = 2023

\* C29 as stated: for the records of era-year 5 month 03 (overtime 10.0) and
\* era-year 5 month 04 (overtime 5.0) the fiscal-year overtime of 2023 is 15.0.
C29_ExampleIsFifteen ==
    NendoExampleSummed => result.data.summary_nendo_overtime = FloatV(150)

\* C29, amended: for the same two records the fiscal-year overtime of 2023 is
\* 5.0, March 2023 being a month of the fiscal year 2022.
C29_ExampleIsFive ==
    NendoExampleSummed => result.data.summary_nendo_overtime = FloatV(50)

C29_Witness ==
    /\ NendoExampleSummed
    /\ _parse_year_month_from_date_str(all_new[1].date) = [ok |-> TRUE, year |-> 2023, month |-> 3]
    /\ _parse_year_month_from_date_str(all_new[2].date) = [ok |-> TRUE, year |-> 2023, month |-> 4]
    /\ all_new[1].overtime = FloatV(100) /\ all_new[2].overtime = FloatV(50)
    /\ result.data.summary_nendo_overtime = FloatV(50)


\* the label of the detail page whose value goes to a field of the record
PageLabelOf ==
    [total_pay |-> "total_pay", net_pay |-> "net_pay", overtime |-> "overtime",
     leave_time |-> "leave_time", used_days |-> "html_used_days",
     remaining_days |-> "html_remaining_days"]

\* the positions of the <dl> elements of the page that carry a label
DlsWith(page, label) ==
    IF page.html_div THEN {i \in 1..Len(page.dls) : page.dls[i].dt = label} ELSE {}

\* C30: what the parser returns has the six canonical fields and no other;
\* the value under the page's label for the paid-leave days used (and
\* remaining) is in the field used_days (remaining_days), as every other
\* value is in its field; a field whose label the page does not carry is the
\* sentinel; the row of the record takes the six fields as they are.
C30_LeaveLabelsMapToCanonicalFields ==
    pc = "parsed" =>
        LET detail == parse_payslip_detail(portal)
        IN  /\ DOMAIN detail = DOMAIN PageLabelOf
            /\ \A f \in DOMAIN PageLabelOf :
                  LET at == DlsWith(portal, PageLabelOf[f])
                  IN  /\ at = {} => detail[f] = NA
                      /\ at # {} =>
                            LET last == CHOOSE i \in at : \A j \in at : j <= i
                            IN  detail[f] = DdValue(portal.dls[last].dd)
                      /\ new_list[1][f] = detail[f]

C30_Witness ==
    /\ pc = "parsed"
    /\ portal = [html_div |-> TRUE,
                 dls |-> <<[dt |-> "html_used_days", dd |-> DecLit(15)],
                           [dt |-> "remaining_days", dd |-> IntLit(1200)]>>]
    /\ new_list[1].used_days = FloatV(15)
    /\ new_list[1].remaining_days = NA
    /\ new_list[1].total_pay = NA


\* C31: a press of the button with an empty login ID or an empty password is
\* rejected, and only such a press is; after the rejection run_main_logic has
\* not been entered: the file is as it was and unread, no request was sent,
\* the credential store is untouched and no save was called.
C31_EmptyCredentialsAreRejected ==
    /\ rpc # "idle" => (rpc = "rejected" <=> (login_id = "" \/ password = ""))
    /\ rpc = "rejected" =>
          /\ runs = 0
          /\ file = file0
          /\ existing_data = <<>> /\ existing_dates = {}
          /\ requests = <<>> /\ session = "none" /\ calls = <<>>
          /\ env = [MY_LOGIN_ID |-> NoCredential, MY_PASSWORD |-> NoCredential]
          /\ save_call = NoSaveCall
          /\ result = NoResult
          /\ ~ENABLED NextSubmit

C31_Witness ==
    /\ rpc = "rejected" /\ login_id = "id1" /\ password = ""
    /\ file # <<>> /\ portal.table


\* C32: every POST of a call (login, list, detail, go-back, logout) follows a
\* request of the same call and carries the hidden fields of the response to
\* that request, the last response the session received; the fields of no
\* earlier response are sent again.
C32_HiddenFieldsAreFresh ==
    \A i \in 1..Len(requests) :
        /\ requests[i].kind = "get" <=>
              (i = 1 \/ requests[i - 1].call # requests[i].call)
        /\ requests[i].kind # "get" =>
              /\ requests[i - 1].out = "ok"
              /\ requests[i].form = requests[i - 1].resp
              /\ \A j \in 1..(i - 2) : requests[i].form # requests[j].resp

\* a call that fetched a row, came back to the list, fetched another and
\* logged out
C32_Witness ==
    \E i \in 1..Len(requests) :
        /\ i + 4 <= Len(requests)
        /\ requests[i].kind = "detail" /\ requests[i + 1].kind = "back"
        /\ requests[i + 2].kind = "detail" /\ requests[i + 3].kind = "back"
        /\ requests[i + 4].kind = "logout"
        /\ requests[i + 4].call = requests[i].call


\* the positions, among the requests of a call, of the detail POSTs that
\* landed on the detail page and were followed by a go-back POST that landed
\* on the list page
FetchedAndReturned(rs) ==
    {i \in 1..(Len(rs) - 1) :
        /\ rs[i].kind = "detail" /\ rs[i].out = "ok" /\ rs[i].url = DETAIL_PAGE_URL
        /\ rs[i + 1].kind = "back" /\ rs[i + 1].out = "ok"
        /\ rs[i + 1].url = LIST_PAGE_URL
        /\ rs[i + 1].target = rs[i].target}

\* C33: the records of a call that returned success are, one for one and in
\* order, the rows whose detail POST landed on the detail page and whose
\* go-back POST landed on the list page; they follow the order of the rows of
\* the list page, no row giving two records.
C33_RecordsComeFromCompletedRows ==
    \A k \in 1..Len(calls) :
        calls[k].success =>
            LET rs == RequestsOf(k)
                recs == calls[k].records
                done == FetchedAndReturned(rs)
            IN  /\ Len(recs) = Cardinality(done)
                /\ \A i \in done :
                      recs[Cardinality({j \in done : j <= i})].date = rs[i].target
                /\ \E pos \in [1..Len(recs) -> 1..Len(portal.rows)] :
                      /\ \A n \in 1..Len(recs) : portal.rows[pos[n]].date = recs[n].date
                      /\ \A n \in 1..(Len(recs) - 1) : pos[n] < pos[n + 1]

C33_Witness ==
    \E k \in 1..Len(calls) :
        /\ calls[k].success /\ Len(calls[k].records) = 2
        /\ calls[k].records[1].date = Label(2020, 2)
        /\ calls[k].records[2].date = Label(2020, 1)
        /\ Cardinality(FetchedAndReturned(RequestsOf(k))) = 2


\* C34 (as claimed): a run whose per-year calls all returned success and in
\* which neither the credential write nor the write of the file failed
\* returns success, also when the portal lists no payslip for the months of
\* the delta and there is no record yet.
C34_CleanRunSucceeds ==
    /\ rpc = "done"
    /\ \A k \in 1..Len(calls) : calls[k].success
    /\ result.warning = ""
    /\ save_call.called => save_call.outcome = "ok"
    => result.success


\* C35 (as claimed): every record the file held when a run started, known by
\* its date label, is in the file when the run has returned, whatever the run
\* returned and also when reading the file raised.
C35_FileOnlyGrows ==
    rpc = "done" =>
        \A i \in 1..Len(file0) : \E j \in 1..Len(file) : file[j].date = file0[i].date


\* C36 (as claimed): a call whose login POST landed on the menu page has sent
\* a logout POST by the time it returns and its session is closed, whatever
\* the way it returned.
C36_LogoutOnEveryExit ==
    \A k \in 1..Len(calls) :
        LET rs == RequestsOf(k)
        IN  (\E i \in 1..Len(rs) : /\ rs[i].kind = "login" /\ rs[i].out = "ok"
                                   /\ rs[i].url = MENU_PAGE_URL)
            => \E j \in 1..Len(rs) : rs[j].kind = "logout"


\* the detail requests of the run so far, by their position in requests
DetailRequests == {i \in 1..Len(requests) : requests[i].kind = "detail"}

\* C37: within one run a list row is fetched by at most one per-year call, and
\* only by the call for the Gregorian year of its own month key, so no two new
\* records of the run come from the same row.
C37_RowFetchedByItsOwnYearOnly ==
    /\ \A i \in DetailRequests :
          requests[i].call <= Len(calls) =>
              calls[requests[i].call].year = YearOfKey(Slice(requests[i].target, 0, 8))
    /\ \A i, j \in DetailRequests :
          requests[i].target = requests[j].target => i = j
    /\ \A k, l \in 1..Len(calls) :
          \A m \in 1..Len(calls[k].records) : \A n \in 1..Len(calls[l].records) :
              calls[k].records[m].date = calls[l].records[n].date => (k = l /\ m = n)
    /\ \A m, n \in 1..Len(all_new) : all_new[m].date = all_new[n].date => m = n

C37_Witness ==
    /\ rpc = "done"
    /\ \E k, l \in 1..Len(calls) :
          /\ calls[k].year = 2019 /\ calls[l].year = 2020
          /\ Len(calls[k].records) = 1 /\ Len(calls[l].records) = 2
    /\ Len(all_new) = 3


\* the months of a delta for which the list page has no row to fetch
Unlisted(d) ==
    {m \in d : \A n \in 1..Len(TargetPayslips(portal, YearOfKey(m))) :
                   Slice(TargetPayslips(portal, YearOfKey(m))[n].date, 0, 8) # m}

\* the months of the delta of the run before that it did not fetch: the row
\* was soft-skipped, or the portal listed none
Unfetched == prev.skipped \cup Unlisted(prev.delta)

\* C38 (as claimed): a month of the delta of a successful run whose row was
\* soft-skipped or was not listed is in the delta of the next run with the
\* same required set.
C38_UnfetchedMonthIsRetried ==
    (runs >= 2 /\ prev.success /\ required = prev.required) =>
        Unfetched \subseteq delta

\* C38, for a run that read the file: a month of its delta whose row
\* was soft-skipped or was not listed, is not among the month keys of the file
\* after the run, and is in the delta of the next run with the same required
\* set.
C38_UnfetchedMonthOfReadFileIsRetried ==
    (runs >= 2 /\ prev.success /\ prev.read_ok /\ required = prev.required) =>
        /\ Unfetched \cap FileKeys(file0) = {}
        /\ Unfetched \subseteq delta

C38_Witness ==
    /\ runs = 2 /\ prev.success /\ prev.read_ok /\ required = prev.required
    /\ prev.skipped # {} /\ Unlisted(prev.delta) # {}
    /\ prev.skipped \subseteq delta
    /\ Len(file0) > 0


\* the six fields of the calendar-year summary
SummaryFields == {"total_pay", "total_net_pay", "total_overtime",
                  "latest_paid_leave_time", "latest_paid_leave_used_days",
                  "latest_paid_leave_remaining_days"}

\* C39 (as claimed): every result returned with success=true and no warning
\* holds a calendar-year summary with all six fields, the three totals and
\* the three latest fields, also when the dataset has no record of the UI's
\* year.
C39_SummaryHasSixFields ==
    (rpc = "done" /\ result.success /\ result.warning = "") =>
        /\ "summary_data_rekigun" \in result.keys
        /\ {kv[1] : kv \in result.data.summary_data_rekigun} = SummaryFields

====
